---- MODULE Spec2Model ----
(***************************************************************************)
(* A model of the pc-agent host agent: the command dispatcher              *)
(* (internal/commands), the supervisor (main.go), the power-event listener *)
(* (internal/power), the bus client wrapper (internal/mqtt) and the        *)
(* start-up instance handling.                                             *)
(*                                                                         *)
(* Strings the program inspects character by character are sequences of    *)
(* one-character strings; names that are only compared as a whole (command *)
(* names, sensor names, topics) are TLA+ strings.                          *)
(***************************************************************************)
EXTENDS Integers, Sequences, FiniteSets, Bags, TLC

VARIABLES
    \* ---- one call of commands.Execute and the child it starts
    exec,
    \* ---- command dispatch (main.go command callback, internal/commands)
    cmdSem,        \* number of tokens in the s.cmdSem channel
    workers,       \* the bag of live worker goroutines spawned by the callback
    children,      \* the bag of child processes started and not yet reaped
    nextMsg,       \* number of command messages delivered so far
    \* ---- supervisor, power listener, retry workers, sensor loop
    runPc,         \* position of pcAgentService.run
    mqttClient,    \* s.mqttClient: "nil" or "client"
    will,          \* last-will registered by NewClient
    connected,     \* the bus client's connection state
    mu,            \* holder of s.mu ("free" when unlocked)
    stopChan,      \* "open" or "closed"
    pump,          \* the pump thread of the power listener
    osQueue,       \* power broadcasts the OS has posted, not yet dispatched
    retry,         \* resume-publish retry workers
    sensor,        \* the sensor loop goroutine
    stopper,       \* position and trace of pcAgentService.stop
    watcher,       \* the config watcher: "off", "running", "stopped"
    wakeHandler,   \* s.displayWakeHandler: "nil" or "set"
    bus,           \* what the broker retains and the last publish it was handed
    ghost,         \* history variables about suspend/resume and publishes
    \* ---- the bus wrapper's connect handler
    conn,
    \* ---- process instances of the binary
    inst,
    \* ---- display wake (internal/power/display.go)
    wake,
    \* ---- game map, its watcher and the running-game sensor
    games,
    \* ---- one call of a function of the sensors or commands package
    calc,
    \* ---- the topic strings of the bus wrapper and the device name
    topics,
    \* ---- one load of userConfig.json
    cfg,
    \* ---- a power event listener: pump, heartbeat watchdog, Stop()
    lst,
    \* ---- one call of expandWindowsEnv, iteration by iteration
    expand,
    \* ---- the game map under the file watcher's events
    watch,
    \* ---- the pattern cache under concurrent getPatterns callers
    pcache,
    \* ---- console mode: the control handler and main's wait
    console

execVars == <<exec>>
cmdVars == <<cmdSem, workers, children, nextMsg>>
supVars == <<runPc, mqttClient, will, connected, mu, stopChan, pump, osQueue,
             retry, sensor, stopper, watcher, wakeHandler, bus, ghost>>
connVars == <<conn>>
instVars == <<inst>>
wakeVars == <<wake>>
gameVars == <<games>>
calcVars == <<calc>>
auxVars == <<topics, cfg, lst>>
moreVars == <<expand, watch, pcache, console>>
vars == <<execVars, cmdVars, supVars, connVars, instVars, wakeVars, gameVars, calcVars,
          auxVars, moreVars>>

-----------------------------------------------------------------------------
(* Bounds of the model *)

\* command messages delivered in one behaviour
MaxMsgs == 6

-----------------------------------------------------------------------------
(* Characters and the strings package *)

LowerSeq == <<"a","b","c","d","e","f","g","h","i","j","k","l","m","n","o","p","q","r","s","t","u","v","w","x","y","z">>
UpperSeq == <<"A","B","C","D","E","F","G","H","I","J","K","L","M","N","O","P","Q","R","S","T","U","V","W","X","Y","Z">>
DigitSeq == <<"0","1","2","3","4","5","6","7","8","9">>

Range(s) == {s[i] : i \in DOMAIN s}
LowerCh == Range(LowerSeq)
UpperCh == Range(UpperSeq)
DigitCh == Range(DigitSeq)
SpaceCh == {" ", "\t", "\n", "\r"}

\* unicode.ToLower on one character
ToLowerCh(c) ==
    IF c \in UpperCh THEN LowerSeq[CHOOSE i \in DOMAIN UpperSeq : UpperSeq[i] = c] ELSE c

\* strings.ToLower
ToLower(s) == [i \in DOMAIN s |-> ToLowerCh(s[i])]

\* s[from:] and s[:to] with Go's 0-based offsets
Drop(s, n) == SubSeq(s, n + 1, Len(s))
Take(s, n) == SubSeq(s, 1, n)

\* strings.HasPrefix / strings.HasSuffix
HasPrefix(s, p) == Len(s) >= Len(p) /\ Take(s, Len(p)) = p
HasSuffix(s, p) == Len(s) >= Len(p) /\ Drop(s, Len(s) - Len(p)) = p

\* strings.TrimSuffix
TrimSuffix(s, p) == IF HasSuffix(s, p) THEN Take(s, Len(s) - Len(p)) ELSE s

\* strings.Index: 0-based offset of the first occurrence of sub in s, or -1
Index(s, sub) ==
    LET hits == {i \in 0..(Len(s) - Len(sub)) : SubSeq(s, i + 1, i + Len(sub)) = sub}
    IN  IF hits = {} THEN -1 ELSE CHOOSE i \in hits : \A j \in hits : i <= j

\* strings.Contains
Contains(s, sub) == Index(s, sub) # -1

\* strings.TrimSpace
TrimSpace(s) ==
    LET keep == {i \in DOMAIN s : s[i] \notin SpaceCh}
    IN  IF keep = {} THEN <<>>
        ELSE LET lo == CHOOSE i \in keep : \A j \in keep : i <= j
                 hi == CHOOSE i \in keep : \A j \in keep : i >= j
             IN  SubSeq(s, lo, hi)

\* strings.SplitN(s, sep, n) for a one-character sep: at most n parts
RECURSIVE SplitN(_, _, _)
SplitN(s, sep, n) ==
    LET i == Index(s, <<sep>>)
    IN  IF n <= 1 \/ i = -1 THEN <<s>>
        ELSE <<Take(s, i)>> \o SplitN(Drop(s, i + 1), sep, n - 1)

-----------------------------------------------------------------------------
(* internal/commands: the launcher-shortcut grammar *)

\* An isNumeric that takes any text that is not empty
isNumericAnyText(s) == Len(s) > 0

\* isNumeric
isNumeric(s) == (\A i \in DOMAIN s : s[i] \in DigitCh) /\ Len(s) > 0

IdentCh == LowerCh \cup UpperCh \cup DigitCh \cup {".", "-", "_"}

\* isSafeIdentifier
isSafeIdentifier(s) == (\A i \in DOMAIN s : s[i] \in IdentCh) /\ Len(s) > 0

\* isSafePackageName
isSafePackageName(s) ==
    (\A i \in DOMAIN s : s[i] \in IdentCh \cup {"!"}) /\ Len(s) > 0

PathMetaCh == {";", "|", "&", "$", "`", "\"", "'", "\n", "\r"}

\* isSafePath
isSafePath(s) == Len(s) # 0 /\ \A i \in DOMAIN s : s[i] \notin PathMetaCh

StrSteam == <<"s","t","e","a","m">>
StrEpic == <<"e","p","i","c">>
StrXbox == <<"x","b","o","x">>
StrMsstore == <<"m","s","s","t","o","r","e">>
StrExe == <<"e","x","e">>
StrRun == <<"r","u","n">>
StrClose == <<"c","l","o","s","e">>
StrKill == <<"k","i","l","l">>
StrDotExe == <<".","e","x","e">>
StrDotExeSp == <<".","e","x","e"," ">>
StrStartProcess == <<"S","t","a","r","t","-","P","r","o","c","e","s","s"," ">>
StrSteamUri == <<"S","t","a","r","t","-","P","r","o","c","e","s","s"," ","\"","s","t","e","a","m",":","/","/","r","u","n","g","a","m","e","i","d","/">>
StrEpicUri == <<"S","t","a","r","t","-","P","r","o","c","e","s","s"," ","\"","c","o","m",".","e","p","i","c","g","a","m","e","s",".","l","a","u","n","c","h","e","r",":","/","/","a","p","p","s","/">>
StrEpicTail == <<"?","a","c","t","i","o","n","=","l","a","u","n","c","h","&","s","i","l","e","n","t","=","t","r","u","e","\"">>
StrXboxHead == <<"S","t","a","r","t","-","P","r","o","c","e","s","s"," ","e","x","p","l","o","r","e","r",".","e","x","e"," ","-","A","r","g","u","m","e","n","t","L","i","s","t"," ","'","s","h","e","l","l",":","A","p","p","s","F","o","l","d","e","r","\\">>
StrArgList == <<" ","-","A","r","g","u","m","e","n","t","L","i","s","t"," ","'">>
StrCloseHead == <<"G","e","t","-","P","r","o","c","e","s","s"," ","|"," ","W","h","e","r","e","-","O","b","j","e","c","t"," ","{"," ","$","_",".","P","r","o","c","e","s","s","N","a","m","e"," ","-","e","q"," ","'">>
StrCloseTail == <<"'"," ","}"," ","|"," ","F","o","r","E","a","c","h","-","O","b","j","e","c","t"," ","{"," ","$","_",".","C","l","o","s","e","M","a","i","n","W","i","n","d","o","w","(",")"," ","}">>

\* The exe:/run: branch of expandLauncherShortcut, after the allow-list
expandExe(arg) ==
    LET idx == Index(ToLower(arg), StrDotExeSp)
        path0 == IF idx # -1 THEN Take(arg, idx + 4) ELSE arg
        exeArgs == IF idx # -1 THEN TrimSpace(Drop(arg, idx + 5)) ELSE <<>>
        exePath == IF Contains(path0, <<" ">>) /\ ~HasPrefix(path0, <<"\"">>)
                   THEN <<"\"">> \o path0 \o <<"\"">> ELSE path0
    IN  IF exeArgs # <<>>
        THEN StrStartProcess \o exePath \o StrArgList \o exeArgs \o <<"'">>
        ELSE StrStartProcess \o exePath

\* expandLauncherShortcut: the expansion, or <<>> ("") when there is none
expandLauncherShortcut(cmd) ==
    LET parts == SplitN(cmd, ":", 2)
    IN  IF Len(parts) # 2 THEN <<>>
        ELSE LET launcher == ToLower(TrimSpace(parts[1]))
                 arg == TrimSpace(parts[2])
             IN  IF arg = <<>> THEN <<>>
                 ELSE CASE launcher = StrSteam ->
                             IF ~isNumeric(arg) THEN <<>> ELSE StrSteamUri \o arg \o <<"\"">>
                        [] launcher = StrEpic ->
                             IF ~isSafeIdentifier(arg) THEN <<>>
                             ELSE StrEpicUri \o arg \o StrEpicTail
                        [] launcher \in {StrXbox, StrMsstore} ->
                             IF ~isSafePackageName(arg) THEN <<>>
                             ELSE StrXboxHead \o arg \o <<"'">>
                        [] launcher \in {StrExe, StrRun} ->
                             IF ~isSafePath(arg) THEN <<>> ELSE expandExe(arg)
                        [] launcher \in {StrClose, StrKill} ->
                             LET processName == TrimSuffix(arg, StrDotExe)
                             IN  IF ~isSafeIdentifier(processName) THEN <<>>
                                 ELSE StrCloseHead \o processName \o StrCloseTail
                        [] OTHER -> <<>>

-----------------------------------------------------------------------------
(* internal/commands: environment expansion, shell dispatch, notifications *)

\* iterations of expandWindowsEnv's loop the model follows before giving up
ExpandFuel == 4

StrWindir == <<"w","i","n","d","i","r">>
StrWindowsDir == <<"C",":","\\","W","i","n","d","o","w","s">>

\* The process environment: variable name (lower-cased, Windows looks names
\* up case-insensitively) -> value
ProcEnv == [n \in {StrWindir} |-> StrWindowsDir]

\* os.Getenv: "" for an unset variable
Getenv(env, name) == IF ToLower(name) \in DOMAIN env THEN env[ToLower(name)] ELSE <<>>

\* The loop of expandWindowsEnv in environment env; done is FALSE when the
\* loop was still running after fuel iterations
RECURSIVE expandEnvIn(_, _, _)
expandEnvIn(env, result, fuel) ==
    LET start == Index(result, <<"%">>)
        rest == Drop(result, start + 1)
        end0 == Index(rest, <<"%">>)
        end == end0 + start + 1
        varName == SubSeq(result, start + 2, end)
    IN  IF start = -1 THEN [done |-> TRUE, result |-> result]
        ELSE IF end0 = -1 THEN [done |-> TRUE, result |-> result]
        ELSE IF fuel = 0 THEN [done |-> FALSE, result |-> result]
        ELSE expandEnvIn(env, Take(result, start) \o Getenv(env, varName) \o Drop(result, end + 1),
                         fuel - 1)

\* expandWindowsEnv
expandWindowsEnv(s) == expandEnvIn(ProcEnv, s, ExpandFuel).result

\* config.Commands
Commands ==
    [c \in {"SteamLaunch", "Screensaver", "Wake", "Shutdown", "sleep", "discord_join",
            "discord_leave_channel"} |->
       CASE c = "Screensaver" -> <<"%","w","i","n","d","i","r","%","\\","S","y","s","t","e","m","3","2","\\","s","c","r","n","s","a","v","e",".","s","c","r"," ","/","s">>
         [] c = "Wake" -> <<"A","d","d","-","T","y","p","e"," ","-","A","s","s","e","m","b","l","y","N","a","m","e"," ","S","y","s","t","e","m",".","W","i","n","d","o","w","s",".","F","o","r","m","s",";"," ","[","S","y","s","t","e","m",".","W","i","n","d","o","w","s",".","F","o","r","m","s",".","S","e","n","d","K","e","y","s","]",":",":","S","e","n","d","W","a","i","t","(","'","{","F","1","5","}","'",")">>
         [] c = "Shutdown" -> <<"s","h","u","t","d","o","w","n"," ","-","s"," ","-","t"," ","0">>
         [] c = "sleep" -> <<"R","u","n","d","l","l","3","2",".","e","x","e"," ","p","o","w","r","p","r","o","f",".","d","l","l",",","S","e","t","S","u","s","p","e","n","d","S","t","a","t","e"," ","0",",","1",",","0">>
         [] OTHER -> <<>>]

\* config.Commands[command]: "" for a name that is not a key
CommandString(command) == IF command \in DOMAIN Commands THEN Commands[command] ELSE <<>>

psCmdlets == {
    <<"S","t","a","r","t","-","P","r","o","c","e","s","s">>,
    <<"A","d","d","-","T","y","p","e">>,
    <<"G","e","t","-","P","r","o","c","e","s","s">>,
    <<"S","t","o","p","-","P","r","o","c","e","s","s">>,
    <<"S","e","t","-">>, <<"G","e","t","-">>, <<"N","e","w","-">>,
    <<"R","e","m","o","v","e","-">>, <<"I","n","v","o","k","e","-">> }

StrStartSp == <<"s","t","a","r","t"," ">>
StrStartProcessQ == <<"S","t","a","r","t","-","P","r","o","c","e","s","s"," ","\"">>

\* The cmd.exe "start" rewrite of executeShellCommand
convertStart(cmdStr) ==
    IF HasPrefix(ToLower(cmdStr), StrStartSp)
    THEN LET parts == SplitN(cmdStr, "\"", 4)
         IN  IF Len(parts) >= 4
             THEN StrStartProcessQ \o TrimSuffix(parts[4], <<"\"">>) \o <<"\"">>
             ELSE cmdStr
    ELSE cmdStr

\* The "& " call operator of executeShellCommand
withCallOperator(cmdStr) ==
    IF \E prefix \in psCmdlets : HasPrefix(cmdStr, prefix) THEN cmdStr
    ELSE <<"&"," ">> \o cmdStr

\* What Execute asks the operating system for.
\*   kind:  "none" (no child process), "async" (cmd.Start, a waiter goroutine
\*          with a timer), "sync" (cmd.Run inside the worker)
\*   ps:    the text handed to powershell -Command
\*   from:  the command string selected before expansion (shell commands)
\*   timer: "command" (5 min), "notification" (30 s) or "none"
\*   keys:  TRUE when a key press is synthesised instead
NoChild == [kind |-> "none", ps |-> <<>>, from |-> <<>>, timer |-> "none", keys |-> FALSE]

\* the launcher expansion step of executeShellCommand (lines 58-61)
launcherStep(cmdStr) ==
    LET launchCmd == expandLauncherShortcut(cmdStr)
    IN  IF launchCmd # <<>> THEN launchCmd ELSE cmdStr

\* An executeShellCommand in which a payload overrides the predefined string
executeShellCommandPayloadFirst(command, payload) ==
    LET cfgStr == CommandString(command)
        cmdStr == IF payload # <<>> THEN payload ELSE cfgStr
    IN  IF cmdStr = <<>> THEN NoChild
        ELSE [kind |-> "async",
              ps |-> withCallOperator(convertStart(expandWindowsEnv(launcherStep(cmdStr)))),
              from |-> cmdStr, timer |-> "command", keys |-> FALSE]

\* executeShellCommand
executeShellCommand(command, payload) ==
    LET cfgStr == CommandString(command)
        cmdStr == IF cfgStr = <<>> /\ payload # <<>> THEN payload ELSE cfgStr
    IN  IF cmdStr = <<>> THEN NoChild
        ELSE [kind |-> "async",
              ps |-> withCallOperator(convertStart(expandWindowsEnv(launcherStep(cmdStr)))),
              from |-> cmdStr, timer |-> "command", keys |-> FALSE]

StrScreensaverPs == <<"G","e","t","-","P","r","o","c","e","s","s"," ","|"," ","W","h","e","r","e","-","O","b","j","e","c","t"," ","{"," ","$","_",".","P","a","t","h"," ","-","l","i","k","e"," ","'","*",".","s","c","r","'"," ","}"," ","|"," ","S","t","o","p","-","P","r","o","c","e","s","s"," ","-","F","o","r","c","e"," ","-","E","r","r","o","r","A","c","t","i","o","n"," ","S","i","l","e","n","t","l","y","C","o","n","t","i","n","u","e">>

\* dismissScreensaver: cmd.Run(), no timer
dismissScreensaver ==
    [kind |-> "sync", ps |-> StrScreensaverPs, from |-> <<>>, timer |-> "none", keys |-> FALSE]

\* sendCtrlF6
sendCtrlF6 == [NoChild EXCEPT !.keys = TRUE]

\* characters escapeXML strips: below 0x20 other than tab, newline, CR.
\* "\f" (0x0C) stands for the prohibited control characters.
StripCh == {"\f"}

\* An escapeXML that writes a prohibited control character as a numeric
\* character reference instead of dropping it
escapeChNumericRef(c) ==
    IF c \in StripCh THEN <<"&","#","1","2",";">>
    ELSE CASE c = "&" -> <<"&","a","m","p",";">>
           [] c = "<" -> <<"&","l","t",";">>
           [] c = ">" -> <<"&","g","t",";">>
           [] c = "'" -> <<"&","a","p","o","s",";">>
           [] c = "\"" -> <<"&","q","u","o","t",";">>
           [] OTHER -> <<c>>

\* escapeXML on one character
escapeCh(c) ==
    IF c \in StripCh THEN <<>>
    ELSE CASE c = "&" -> <<"&","a","m","p",";">>
           [] c = "<" -> <<"&","l","t",";">>
           [] c = ">" -> <<"&","g","t",";">>
           [] c = "'" -> <<"&","a","p","o","s",";">>
           [] c = "\"" -> <<"&","q","u","o","t",";">>
           [] OTHER -> <<c>>

\* escapeXML
RECURSIVE escapeXML(_)
escapeXML(s) == IF s = <<>> THEN <<>> ELSE escapeCh(Head(s)) \o escapeXML(Tail(s))

StrHomeAssistant == <<"H","o","m","e"," ","A","s","s","i","s","t","a","n","t">>
StrText1 == <<"<","t","e","x","t"," ","i","d","=","\"","1","\"",">">>
StrText2 == <<"<","t","e","x","t"," ","i","d","=","\"","2","\"",">">>
StrTextEnd == <<"<","/","t","e","x","t",">">>

\* showNotification for a payload that is not a JSON object (json.Unmarshal
\* fails, or yields empty fields): the title defaults, the message is the
\* payload. ps holds the two <text> lines of the toast template.
showNotification(payload) ==
    LET title == escapeXML(StrHomeAssistant)
        message == escapeXML(TrimSpace(payload))
    IN  [kind |-> "async",
         ps |-> StrText1 \o title \o StrTextEnd \o StrText2 \o message \o StrTextEnd,
         from |-> <<>>, timer |-> "notification", keys |-> FALSE]

StrPRESS == <<"P","R","E","S","S">>
Strpress == <<"p","r","e","s","s">>

\* A normalisation that takes the button default in any letter case
normaliseAnyCase(payload) ==
    LET p == TrimSpace(payload)
    IN  IF ToLower(p) = Strpress THEN <<>> ELSE p

\* The payload normalisation of Execute
normalise(payload) ==
    LET p == TrimSpace(payload)
    IN  IF p = StrPRESS \/ p = Strpress THEN <<>> ELSE p

\* An Execute that shows every notification, also one with no text
ExecuteNotifyAlways(command, payload0) ==
    LET payload == normalise(payload0)
    IN  CASE command = "discord_leave_channel" -> sendCtrlF6
          [] command = "Wake" -> dismissScreensaver
          [] command = "notification" -> showNotification(payload)
          [] OTHER -> executeShellCommand(command, payload)

\* commands.Execute
Execute(command, payload0) ==
    LET payload == normalise(payload0)
    IN  CASE command = "discord_leave_channel" -> sendCtrlF6
          [] command = "Wake" -> dismissScreensaver
          [] command = "notification" ->
               IF payload = <<>> THEN NoChild ELSE showNotification(payload)
          [] OTHER -> executeShellCommand(command, payload)

-----------------------------------------------------------------------------
(* One call of Execute: the inputs, the child process, its waiter *)

\* The names the bus wrapper passes to the command callback
\* (subscribeCommands), and a name outside the vocabulary
CommandNames == {"SteamLaunch", "Screensaver", "Wake", "Shutdown", "sleep", "discord_join",
                 "discord_leave_channel", "notification"}

Payloads == {
    <<>>,
    <<"P","R","E","S","S">>,
    <<" "," ","p","r","e","s","s"," "," ">>,
    <<"\t","P","R","E","S","S","\n">>,
    <<"P","r","e","s","s">>,
    <<" ","\t","\n">>,
    <<" ","a"," ","b","\n">>,
    <<"s","t","e","a","m",":","4","4","0">>,
    <<"s","t","e","a","m",":","a","b","c">>,
    <<"S","t","e","a","m",":"," ","7">>,
    <<"s","t","e","a","m",":">>,
    <<"e","p","i","c",":","A","b","_","1">>,
    <<"e","p","i","c",":","a"," ","b">>,
    <<"x","b","o","x",":","P",".","q","!","A","p","p">>,
    <<"m","s","s","t","o","r","e",":","a",";","b">>,
    <<"e","x","e",":","C",":","\\","g",".","e","x","e"," ","-","x">>,
    <<"r","u","n",":","a"," ","b",".","e","x","e">>,
    <<"e","x","e",":","a","|","b">>,
    <<"c","l","o","s","e",":","b","f","6",".","e","x","e">>,
    <<"k","i","l","l",":","a"," ","b">>,
    <<"c","l","o","s","e",":",".","e","x","e">>,
    <<"c","a","l","c",".","e","x","e">>,
    <<"%","w","i","n","d","i","r","%","\\","x">>,
    <<"s","t","a","r","t"," ","\"","\""," ","\"","h","t","t","p",":","/","/","x","\"">>,
    <<"h","i"," ","<","b",">">> }

\* A child process: state is "none", "running", "exited" or "killed"; timer
\* is the waiter goroutine's timer: "none", "armed" or "fired"
NoProc == [state |-> "none", timer |-> "none", ps |-> <<>>, from |-> <<>>]

\* cmd.Start() / cmd.Run() of the request r; ok is whether the process could
\* be created
StartChild(r, ok) ==
    IF r.kind = "none" \/ ~ok THEN NoProc
    ELSE [state |-> "running",
          timer |-> IF r.kind = "async" THEN "armed" ELSE "none",
          ps |-> r.ps, from |-> r.from]

\* The child ends by itself; the waiter's deferred timer.Stop() runs
ProcExit(c) == [c EXCEPT !.state = "exited", !.timer = "none"]

\* The waiter's timer channel delivers (5 min / 30 s after the start)
ProcTimerFire(c) == [c EXCEPT !.timer = "fired"]

\* The waiter's case <-timer.C: cmd.Process.Kill()
ProcKill(c) == [c EXCEPT !.state = "killed", !.timer = "none"]

ExecInit ==
    \E c \in CommandNames, p \in Payloads :
        exec = [command |-> c, payload |-> p, pc |-> "called", child |-> NoProc,
                logged |-> <<>>, err |-> FALSE, from |-> <<>>, launch |-> <<>>]

\* Execute runs to its return: the normalised payload is logged, the
\* child is started (or not); the error returned is that of cmd.Start()
\* (dismissScreensaver drops the error of cmd.Run()). from and launch keep
\* the command string executeShellCommand selected and what
\* expandLauncherShortcut returned for it
ExecCall ==
    /\ exec.pc = "called"
    /\ \E ok \in BOOLEAN :
         LET r == Execute(exec.command, exec.payload)
         IN  exec' = [exec EXCEPT !.pc = "returned",
                                  !.logged = normalise(exec.payload),
                                  !.child = StartChild(r, ok),
                                  !.err = (r.kind = "async" /\ ~ok),
                                  !.from = r.from,
                                  !.launch = IF r.from # <<>>
                                             THEN expandLauncherShortcut(r.from) ELSE <<>>]
    /\ UNCHANGED <<cmdVars, supVars, connVars, instVars, wakeVars, gameVars, calcVars,
                   auxVars, moreVars>>

ExecChildExit ==
    /\ exec.child.state = "running"
    /\ exec' = [exec EXCEPT !.child = ProcExit(@)]
    /\ UNCHANGED <<cmdVars, supVars, connVars, instVars, wakeVars, gameVars, calcVars,
                   auxVars, moreVars>>

ExecTimerFire ==
    /\ exec.child.state = "running"
    /\ exec.child.timer = "armed"
    /\ exec' = [exec EXCEPT !.child = ProcTimerFire(@)]
    /\ UNCHANGED <<cmdVars, supVars, connVars, instVars, wakeVars, gameVars, calcVars,
                   auxVars, moreVars>>

ExecKill ==
    /\ exec.child.state = "running"
    /\ exec.child.timer = "fired"
    /\ exec' = [exec EXCEPT !.child = ProcKill(@)]
    /\ UNCHANGED <<cmdVars, supVars, connVars, instVars, wakeVars, gameVars, calcVars,
                   auxVars, moreVars>>

ExecNext == ExecCall \/ ExecChildExit \/ ExecTimerFire \/ ExecKill

-----------------------------------------------------------------------------
(* The command callback of run() and its workers *)

\* maxConcurrentCommands
maxConcurrentCommands == 5

\* The messages of the concurrency model: a launch (a child with a waiter),
\* Wake (a child the worker waits for) and an empty notification (no child)
SemInputs == {
    [command |-> "SteamLaunch", payload |-> <<"s","t","e","a","m",":","4","4","0">>],
    [command |-> "Wake", payload |-> <<"P","R","E","S","S">>],
    [command |-> "notification", payload |-> <<>>] }

CmdInit ==
    /\ cmdSem = 0
    /\ workers = EmptyBag
    /\ children = EmptyBag
    /\ nextMsg = 0

\* One more / one fewer copy of e in the bag b
BagAdd(b, e) == b (+) SetToBag({e})
BagRemove(b, e) == b (-) SetToBag({e})

\* A worker goroutine: pc is "spawned" (Execute not yet called) or "running"
\* (inside cmd.Run())
Worker(pc, command, payload) == [pc |-> pc, command |-> command, payload |-> payload]
SyncWorker == Worker("running", "", <<>>)

\* The callback's select, case s.cmdSem <- struct{}{}: a worker is spawned
OnCommandSpawn ==
    /\ nextMsg < MaxMsgs
    /\ cmdSem < maxConcurrentCommands
    /\ \E in \in SemInputs :
         workers' = BagAdd(workers, Worker("spawned", in.command, in.payload))
    /\ cmdSem' = cmdSem + 1
    /\ nextMsg' = nextMsg + 1
    /\ UNCHANGED <<children, execVars, supVars, connVars, instVars, wakeVars, gameVars, calcVars,
                   auxVars, moreVars>>

\* The callback's select, default: the command is dropped
OnCommandDrop ==
    /\ nextMsg < MaxMsgs
    /\ cmdSem >= maxConcurrentCommands
    /\ nextMsg' = nextMsg + 1
    /\ UNCHANGED <<cmdSem, workers, children, execVars, supVars, connVars, instVars, wakeVars, gameVars, calcVars,
                   auxVars, moreVars>>

\* A worker whose deferred function is missing: the token stays in s.cmdSem
ReleaseSemNever(n) == n

\* The token the worker's deferred function takes back out of s.cmdSem
ReleaseSem(n) == n - 1

\* The worker calls Execute. For a request without a child, or with a child
\* that has a waiter goroutine, Execute returns and the deferred release
\* runs; for cmd.Run() the worker stays inside Execute.
WorkerExecute(w) ==
    /\ w.pc = "spawned"
    /\ \E ok \in BOOLEAN :
         LET r == Execute(w.command, w.payload)
             c == StartChild(r, ok)
         IN  /\ children' = IF c.state = "running" THEN BagAdd(children, c) ELSE children
             /\ IF r.kind = "sync" /\ c.state = "running"
                THEN /\ workers' = BagAdd(BagRemove(workers, w), SyncWorker)
                     /\ UNCHANGED cmdSem
                ELSE /\ workers' = BagRemove(workers, w)
                     /\ cmdSem' = ReleaseSem(cmdSem)
    /\ UNCHANGED <<nextMsg, execVars, supVars, connVars, instVars, wakeVars, gameVars, calcVars,
                   auxVars, moreVars>>

\* cmd.Run() returns after the child ended: Execute returns, the deferred
\* release runs
WorkerReturn(c) ==
    /\ c.state = "exited"
    /\ BagIn(SyncWorker, workers)
    /\ workers' = BagRemove(workers, SyncWorker)
    /\ children' = BagRemove(children, c)
    /\ cmdSem' = ReleaseSem(cmdSem)
    /\ UNCHANGED <<nextMsg, execVars, supVars, connVars, instVars, wakeVars, gameVars, calcVars,
                   auxVars, moreVars>>

\* A child ends by itself. A child with a waiter goroutine is reaped by it
\* (cmd.Wait()); a child of cmd.Run() stays until Run returns.
ChildExit(c) ==
    /\ c.state = "running"
    /\ children' = IF c.timer = "none" THEN BagAdd(BagRemove(children, c), ProcExit(c))
                   ELSE BagRemove(children, c)
    /\ UNCHANGED <<cmdSem, workers, nextMsg, execVars, supVars, connVars, instVars, wakeVars, gameVars, calcVars,
                   auxVars, moreVars>>

TimerFire(c) ==
    /\ c.state = "running"
    /\ c.timer = "armed"
    /\ children' = BagAdd(BagRemove(children, c), ProcTimerFire(c))
    /\ UNCHANGED <<cmdSem, workers, nextMsg, execVars, supVars, connVars, instVars, wakeVars, gameVars, calcVars,
                   auxVars, moreVars>>

WaiterKill(c) ==
    /\ c.state = "running"
    /\ c.timer = "fired"
    /\ children' = BagRemove(children, c)
    /\ UNCHANGED <<cmdSem, workers, nextMsg, execVars, supVars, connVars, instVars, wakeVars, gameVars, calcVars,
                   auxVars, moreVars>>

CmdNext ==
    \/ OnCommandSpawn
    \/ OnCommandDrop
    \/ \E w \in BagToSet(workers) : WorkerExecute(w)
    \/ \E c \in BagToSet(children) :
         \/ WorkerReturn(c)
         \/ ChildExit(c)
         \/ TimerFire(c)
         \/ WaiterKill(c)

-----------------------------------------------------------------------------
(* internal/mqtt: the publish calls of the bus wrapper *)

\* A PublishSensor that sets the retained flag
PublishSensorWithRetain(name, value) ==
    [name |-> name, value |-> value, qos |-> 1, retained |-> TRUE, wait |-> FALSE]

\* Client.PublishSensor: c.Publish(sensorTopic(name), 1, false, value); the
\* token is dropped (fire and forget)
PublishSensor(name, value) ==
    [name |-> name, value |-> value, qos |-> 1, retained |-> FALSE, wait |-> FALSE]

\* A PublishSensorRetained that drops its token instead of waiting on it
PublishSensorRetainedNoWait(name, value) ==
    [name |-> name, value |-> value, qos |-> 1, retained |-> TRUE, wait |-> FALSE]

\* Client.PublishSensorRetained: c.Publish(sensorTopic(name), 1, true, value),
\* then token.WaitTimeout(5 s)
PublishSensorRetained(name, value) ==
    [name |-> name, value |-> value, qos |-> 1, retained |-> TRUE, wait |-> TRUE]

\* NewClient: SetWill(availabilityTopic(), "offline", 1, true)
SetWill == [topic |-> "availability", payload |-> "offline", qos |-> 1, retained |-> TRUE]

\* How a token.WaitTimeout(5 s) can end
TokenOutcomes == {"acked", "failed", "timedout"}

\* The state of a publish's token: "none" (no publish yet), "pending", or
\* "done" once one of the outcomes has happened
\* The caller of the publish m goes on when m does not wait on its token, or
\* when the wait has ended
MayReturn(m, token) == ~m.wait \/ token # "pending"

\* A publish handed to the bus client, with how the publisher got there:
\*   by:     the thread that called it
\*   locked: the publisher holds s.mu in the step that tests IsConnected and
\*           makes the call
\*   handle: "field" (read s.mqttClient directly) or "copy" (a local copy)
\*   copied: for a copy, whether it was made while holding s.mu
\*   stale:  sleeping was published and no resume event was delivered since
\* bus.late: a publish was handed to the client after stop() disconnected it
Issue(m, by, handle, copied) ==
    [bus EXCEPT !.last = [name |-> m.name, value |-> m.value, retained |-> m.retained,
                          by |-> by, locked |-> (mu' = by), handle |-> handle,
                          copied |-> copied, stale |-> ghost.sleepPending],
                !.late = @ \/ bus.status = "disconnected"]

NoPublish == [name |-> "", value |-> "", retained |-> FALSE, by |-> "", locked |-> FALSE,
              handle |-> "", copied |-> FALSE, stale |-> FALSE]

-----------------------------------------------------------------------------
(* main.go: pcAgentService.run *)

\* power broadcasts (suspend, resume, suspend, ...) the OS sends in one behaviour
MaxPowerEvents == 3

SupInit ==
    /\ runPc = "loadConfig"
    /\ mqttClient = "nil"
    /\ will = <<>>
    /\ connected = FALSE
    /\ mu = "free"
    /\ stopChan = "open"
    /\ pump = [pc |-> "off", hwnd |-> 0, stopped |-> FALSE, quit |-> FALSE,
               token |-> "none", saw |-> "none"]
    /\ osQueue = <<>>
    /\ retry = <<>>
    /\ sensor = [pc |-> "off", which |-> "", init |-> FALSE, client |-> "nil"]
    /\ stopper = [pc |-> "idle", trace |-> <<>>]
    /\ watcher = "off"
    /\ wakeHandler = "nil"
    /\ bus = [status |-> "none", last |-> NoPublish, late |-> FALSE, runToken |-> "none",
              retainedSleep |-> "absent"]
    /\ ghost = [suspends |-> 0, resumes |-> 0, power |-> "on", sleepPending |-> FALSE]

\* config.LoadUserConfig(); an error ends the process (log.Fatalf)
RunLoadConfig ==
    /\ runPc = "loadConfig"
    /\ \E ok \in BOOLEAN : runPc' = IF ok THEN "initWatcher" ELSE "fatal"
    /\ UNCHANGED <<mqttClient, will, connected, mu, stopChan, pump, osQueue, retry, sensor,
                   stopper, watcher, wakeHandler, bus, ghost>>
    /\ UNCHANGED <<execVars, cmdVars, connVars, instVars, wakeVars, gameVars, calcVars,
                   auxVars, moreVars>>

\* config.InitGameMapWatcher()
RunInitWatcher ==
    /\ runPc = "initWatcher"
    /\ watcher' = "running"
    /\ runPc' = "newClient"
    /\ UNCHANGED <<mqttClient, will, connected, mu, stopChan, pump, osQueue, retry, sensor,
                   stopper, wakeHandler, bus, ghost>>
    /\ UNCHANGED <<execVars, cmdVars, connVars, instVars, wakeVars, gameVars, calcVars,
                   auxVars, moreVars>>

\* s.mqttClient = mqtt.NewClient(callback)
RunNewClient ==
    /\ runPc = "newClient"
    /\ mqttClient' = "client"
    /\ will' = SetWill
    /\ bus' = [bus EXCEPT !.status = "created"]
    /\ runPc' = "connect"
    /\ UNCHANGED <<connected, mu, stopChan, pump, osQueue, retry, sensor, stopper, watcher,
                   wakeHandler, ghost>>
    /\ UNCHANGED <<execVars, cmdVars, connVars, instVars, wakeVars, gameVars, calcVars,
                   auxVars, moreVars>>

\* A run() that treats a failed Connect() like a failed config load
RunConnectAbortsOnFailure ==
    /\ runPc = "connect"
    /\ \E ok \in BOOLEAN :
         /\ connected' = ok
         /\ runPc' = IF ok THEN "wakeHandler" ELSE "fatal"
    /\ bus' = [bus EXCEPT !.status = "active"]
    /\ UNCHANGED <<mqttClient, will, mu, stopChan, pump, osQueue, retry, sensor, stopper,
                   watcher, wakeHandler, ghost>>
    /\ UNCHANGED <<execVars, cmdVars, connVars, instVars, wakeVars, gameVars, calcVars,
                   auxVars, moreVars>>

\* s.mqttClient.Connect(): a failure is logged, run goes on; the client keeps
\* (re)connecting by itself from here on
RunConnect ==
    /\ runPc = "connect"
    /\ \E ok \in BOOLEAN : connected' = ok
    /\ bus' = [bus EXCEPT !.status = "active"]
    /\ runPc' = "wakeHandler"
    /\ UNCHANGED <<mqttClient, will, mu, stopChan, pump, osQueue, retry, sensor, stopper,
                   watcher, wakeHandler, ghost>>
    /\ UNCHANGED <<execVars, cmdVars, connVars, instVars, wakeVars, gameVars, calcVars,
                   auxVars, moreVars>>

\* s.displayWakeHandler = power.DefaultDisplayWakeHandler()
RunWakeHandler ==
    /\ runPc = "wakeHandler"
    /\ wakeHandler' = "set"
    /\ runPc' = "newListener"
    /\ UNCHANGED <<mqttClient, will, connected, mu, stopChan, pump, osQueue, retry, sensor,
                   stopper, watcher, bus, ghost>>
    /\ UNCHANGED <<execVars, cmdVars, connVars, instVars, wakeVars, gameVars, calcVars,
                   auxVars, moreVars>>

\* s.powerListener = power.NewPowerEventListener(onSleep, onWake)
RunNewListener ==
    /\ runPc = "newListener"
    /\ pump' = [pump EXCEPT !.pc = "created"]
    /\ runPc' = "startListener"
    /\ UNCHANGED <<mqttClient, will, connected, mu, stopChan, osQueue, retry, sensor,
                   stopper, watcher, wakeHandler, bus, ghost>>
    /\ UNCHANGED <<execVars, cmdVars, connVars, instVars, wakeVars, gameVars, calcVars,
                   auxVars, moreVars>>

\* s.powerListener.Start(): go p.listen()
RunStartListener ==
    /\ runPc = "startListener"
    /\ pump' = [pump EXCEPT !.pc = "starting"]
    /\ runPc' = "initialCheck"
    /\ UNCHANGED <<mqttClient, will, connected, mu, stopChan, osQueue, retry, sensor,
                   stopper, watcher, wakeHandler, bus, ghost>>
    /\ UNCHANGED <<execVars, cmdVars, connVars, instVars, wakeVars, gameVars, calcVars,
                   auxVars, moreVars>>

\* if s.mqttClient.IsConnected() { PublishSensorRetained("sleep_state", "awake") }
\* s.mu is not taken here
RunInitialPublish ==
    /\ runPc = "initialCheck"
    /\ UNCHANGED mu
    /\ IF connected
       THEN LET m == PublishSensorRetained("sleep_state", "awake")
            IN  /\ bus' = [Issue(m, "run", "field", FALSE) EXCEPT
                              !.runToken = "pending"]
                /\ runPc' = "initialWait"
       ELSE /\ runPc' = "spawnSensor"
            /\ UNCHANGED bus
    /\ UNCHANGED <<mqttClient, will, connected, stopChan, pump, osQueue, retry, sensor,
                   stopper, watcher, wakeHandler, ghost>>
    /\ UNCHANGED <<execVars, cmdVars, connVars, instVars, wakeVars, gameVars, calcVars,
                   auxVars, moreVars>>

\* PublishSensorRetained returns to run
RunInitialReturn ==
    /\ runPc = "initialWait"
    /\ MayReturn(PublishSensorRetained("sleep_state", "awake"), bus.runToken)
    /\ runPc' = "spawnSensor"
    /\ UNCHANGED <<mqttClient, will, connected, mu, stopChan, pump, osQueue, retry, sensor,
                   stopper, watcher, wakeHandler, bus, ghost>>
    /\ UNCHANGED <<execVars, cmdVars, connVars, instVars, wakeVars, gameVars, calcVars,
                   auxVars, moreVars>>

\* s.wg.Add(1); go s.pollSensors(): the loop starts with publishGameSensor
RunSpawnSensor ==
    /\ runPc = "spawnSensor"
    /\ sensor' = [pc |-> "copy", which |-> "runninggames", init |-> TRUE, client |-> "nil"]
    /\ runPc' = "running"
    /\ UNCHANGED <<mqttClient, will, connected, mu, stopChan, pump, osQueue, retry,
                   stopper, watcher, wakeHandler, bus, ghost>>
    /\ UNCHANGED <<execVars, cmdVars, connVars, instVars, wakeVars, gameVars, calcVars,
                   auxVars, moreVars>>

RunNext ==
    \/ RunLoadConfig \/ RunInitWatcher \/ RunNewClient \/ RunConnect \/ RunWakeHandler
    \/ RunNewListener \/ RunStartListener \/ RunInitialPublish \/ RunInitialReturn
    \/ RunSpawnSensor

-----------------------------------------------------------------------------
(* The bus client and the operating system, as seen by the supervisor *)

\* The client (re)connects by itself
BusUp ==
    /\ bus.status = "active"
    /\ ~connected
    /\ connected' = TRUE
    /\ UNCHANGED <<runPc, mqttClient, will, mu, stopChan, pump, osQueue, retry, sensor,
                   stopper, watcher, wakeHandler, bus, ghost>>
    /\ UNCHANGED <<execVars, cmdVars, connVars, instVars, wakeVars, gameVars, calcVars,
                   auxVars, moreVars>>

\* The connection is lost
BusDown ==
    /\ bus.status = "active"
    /\ connected
    /\ connected' = FALSE
    /\ UNCHANGED <<runPc, mqttClient, will, mu, stopChan, pump, osQueue, retry, sensor,
                   stopper, watcher, wakeHandler, bus, ghost>>
    /\ UNCHANGED <<execVars, cmdVars, connVars, instVars, wakeVars, gameVars, calcVars,
                   auxVars, moreVars>>

\* A token ends: acknowledged by the broker (only while connected), failed,
\* or its 5 s wait ran out. An acknowledged sleep_state is what the broker
\* retains.
Outcomes == IF connected THEN TokenOutcomes ELSE TokenOutcomes \ {"acked"}

Retained(o, value) == IF o = "acked" THEN value ELSE bus.retainedSleep

RunTokenEnds ==
    /\ bus.runToken = "pending"
    /\ \E o \in Outcomes :
         bus' = [bus EXCEPT !.runToken = "done", !.retainedSleep = Retained(o, "awake")]
    /\ UNCHANGED <<runPc, mqttClient, will, connected, mu, stopChan, pump, osQueue, retry,
                   sensor, stopper, watcher, wakeHandler, ghost>>
    /\ UNCHANGED <<execVars, cmdVars, connVars, instVars, wakeVars, gameVars, calcVars,
                   auxVars, moreVars>>

PumpTokenEnds ==
    /\ pump.token = "pending"
    /\ \E o \in Outcomes :
         /\ pump' = [pump EXCEPT !.token = "done"]
         /\ bus' = [bus EXCEPT !.retainedSleep = Retained(o, "sleeping")]
    /\ UNCHANGED <<runPc, mqttClient, will, connected, mu, stopChan, osQueue, retry,
                   sensor, stopper, watcher, wakeHandler, ghost>>
    /\ UNCHANGED <<execVars, cmdVars, connVars, instVars, wakeVars, gameVars, calcVars,
                   auxVars, moreVars>>

RetryTokenEnds(w) ==
    /\ retry[w].token = "pending"
    /\ \E o \in Outcomes :
         /\ retry' = [retry EXCEPT ![w].token = "done"]
         /\ bus' = [bus EXCEPT !.retainedSleep = Retained(o, "awake")]
    /\ UNCHANGED <<runPc, mqttClient, will, connected, mu, stopChan, pump, osQueue,
                   sensor, stopper, watcher, wakeHandler, ghost>>
    /\ UNCHANGED <<execVars, cmdVars, connVars, instVars, wakeVars, gameVars, calcVars,
                   auxVars, moreVars>>

\* The OS broadcasts PBT_APMSUSPEND to the listener's window
OsSuspend ==
    /\ pump.pc \notin {"off", "created", "starting", "exited"}
    /\ ghost.power = "on"
    /\ ghost.suspends + ghost.resumes < MaxPowerEvents
    /\ osQueue' = Append(osQueue, "suspend")
    /\ ghost' = [ghost EXCEPT !.suspends = @ + 1, !.power = "suspending"]
    /\ UNCHANGED <<runPc, mqttClient, will, connected, mu, stopChan, pump, retry, sensor,
                   stopper, watcher, wakeHandler, bus>>
    /\ UNCHANGED <<execVars, cmdVars, connVars, instVars, wakeVars, gameVars, calcVars,
                   auxVars, moreVars>>

\* The OS broadcasts a resume (PBT_APMRESUMEAUTO or PBT_APMRESUMESUSPEND)
OsResume ==
    /\ pump.pc \notin {"off", "created", "starting", "exited"}
    /\ ghost.power = "suspending"
    /\ ghost.suspends + ghost.resumes < MaxPowerEvents
    /\ osQueue' = Append(osQueue, "resume")
    /\ ghost' = [ghost EXCEPT !.resumes = @ + 1, !.power = "on"]
    /\ UNCHANGED <<runPc, mqttClient, will, connected, mu, stopChan, pump, retry, sensor,
                   stopper, watcher, wakeHandler, bus>>
    /\ UNCHANGED <<execVars, cmdVars, connVars, instVars, wakeVars, gameVars, calcVars,
                   auxVars, moreVars>>

-----------------------------------------------------------------------------
(* internal/power: the pump thread of the listener, with the callbacks of run() *)

\* listen(): the window is created and its handle stored under p.mu; the
\* pump then blocks in GetMessageW
PumpCreateWindow ==
    /\ pump.pc = "starting"
    /\ pump' = [pump EXCEPT !.pc = "idle", !.hwnd = 1]
    /\ UNCHANGED <<runPc, mqttClient, will, connected, mu, stopChan, osQueue, retry, sensor,
                   stopper, watcher, wakeHandler, bus, ghost>>
    /\ UNCHANGED <<execVars, cmdVars, connVars, instVars, wakeVars, gameVars, calcVars,
                   auxVars, moreVars>>

\* wndProc, WM_POWERBROADCAST / PBT_APMSUSPEND: p.OnSleep() is entered on the
\* pump thread and blocks in s.mu.Lock()
PumpSuspend ==
    /\ pump.pc = "idle"
    /\ osQueue # <<>> /\ Head(osQueue) = "suspend"
    /\ osQueue' = Tail(osQueue)
    /\ pump' = [pump EXCEPT !.pc = "sleepLock", !.token = "none", !.saw = "none"]
    /\ UNCHANGED <<runPc, mqttClient, will, connected, mu, stopChan, retry, sensor,
                   stopper, watcher, wakeHandler, bus, ghost>>
    /\ UNCHANGED <<execVars, cmdVars, connVars, instVars, wakeVars, gameVars, calcVars,
                   auxVars, moreVars>>

\* On Sleep: s.mu.Lock(); if s.mqttClient != nil && IsConnected() the retained
\* publish is issued and the callback waits on its token, holding s.mu
OnSleepLocked ==
    /\ pump.pc = "sleepLock"
    /\ mu = "free"
    /\ mu' = "pump"
    /\ IF mqttClient # "nil" /\ connected
       THEN LET m == PublishSensorRetained("sleep_state", "sleeping")
            IN  /\ bus' = Issue(m, "pump", "field", FALSE)
                /\ pump' = [pump EXCEPT !.pc = "sleepWait", !.token = "pending",
                                        !.saw = "connected"]
                /\ ghost' = [ghost EXCEPT !.sleepPending = TRUE]
       ELSE /\ pump' = [pump EXCEPT !.pc = "sleepWait", !.saw = "disconnected"]
            /\ UNCHANGED <<bus, ghost>>
    /\ UNCHANGED <<runPc, mqttClient, will, connected, stopChan, osQueue, retry, sensor,
                   stopper, watcher, wakeHandler>>
    /\ UNCHANGED <<execVars, cmdVars, connVars, instVars, wakeVars, gameVars, calcVars,
                   auxVars, moreVars>>

\* On Sleep returns (the deferred s.mu.Unlock()), wndProc returns, the pump
\* is back in GetMessageW
OnSleepReturn ==
    /\ pump.pc = "sleepWait"
    /\ MayReturn(PublishSensorRetained("sleep_state", "sleeping"), pump.token)
    /\ mu' = "free"
    /\ pump' = [pump EXCEPT !.pc = "idle"]
    /\ UNCHANGED <<runPc, mqttClient, will, connected, stopChan, osQueue, retry, sensor,
                   stopper, watcher, wakeHandler, bus, ghost>>
    /\ UNCHANGED <<execVars, cmdVars, connVars, instVars, wakeVars, gameVars, calcVars,
                   auxVars, moreVars>>

\* Resume-publish delays of the retry worker
Delays == <<2, 5, 10>>

\* The retry worker the On Wake callback spawns: it starts in the select of
\* its first delay. waited: the delays that have run out; tests: the results
\* of its IsConnected tests; pubs: publishes it issued; late: it made a test
\* after stop() had disconnected the bus
NewRetryWorker ==
    [pc |-> "select", i |-> 1, token |-> "none", waited |-> <<>>, tests |-> <<>>,
     pubs |-> 0, aborted |-> FALSE, late |-> FALSE]

\* wndProc, PBT_APMRESUMEAUTO / PBT_APMRESUMESUSPEND: p.OnWake() runs on the
\* pump thread: the display wake handler is called (its wake sequence runs in
\* a goroutine of its own), the retry worker spawned
PumpResume ==
    /\ pump.pc = "idle"
    /\ osQueue # <<>> /\ Head(osQueue) = "resume"
    /\ osQueue' = Tail(osQueue)
    /\ retry' = Append(retry, NewRetryWorker)
    /\ ghost' = [ghost EXCEPT !.sleepPending = FALSE]
    /\ UNCHANGED <<runPc, mqttClient, will, connected, mu, stopChan, pump, sensor,
                   stopper, watcher, wakeHandler, bus>>
    /\ UNCHANGED <<execVars, cmdVars, connVars, instVars, wakeVars, gameVars, calcVars,
                   auxVars, moreVars>>

\* GetMessageW returns 0 for the WM_QUIT Stop() posted: listen() returns, the
\* deferred function destroys the window and clears the handle
PumpQuit ==
    /\ pump.pc = "idle"
    /\ pump.quit
    /\ pump' = [pump EXCEPT !.pc = "exited", !.hwnd = 0]
    /\ UNCHANGED <<runPc, mqttClient, will, connected, mu, stopChan, osQueue, retry, sensor,
                   stopper, watcher, wakeHandler, bus, ghost>>
    /\ UNCHANGED <<execVars, cmdVars, connVars, instVars, wakeVars, gameVars, calcVars,
                   auxVars, moreVars>>

PumpNext ==
    \/ PumpCreateWindow \/ PumpSuspend \/ OnSleepLocked \/ OnSleepReturn \/ PumpResume
    \/ PumpQuit

-----------------------------------------------------------------------------
(* main.go: the resume-publish retry worker of the On Wake callback *)

\* The worker's step after a test that found the bus not connected: the next
\* delay, or the end of the loop after the last one
RetryAdvance(r) ==
    IF r.i < Len(Delays) THEN [r EXCEPT !.pc = "select", !.i = @ + 1]
    ELSE [r EXCEPT !.pc = "done"]

\* A worker that goes on with its loop after its publish returned
RetryAfterPublishGoesOn(r) == RetryAdvance(r)

\* The worker's step after its publish returned: return
RetryAfterPublish(r) == [r EXCEPT !.pc = "done"]

\* select, case <-s.stopChan: return
RetryAbort(w) ==
    /\ retry[w].pc = "select"
    /\ stopChan = "closed"
    /\ retry' = [retry EXCEPT ![w].pc = "done", ![w].aborted = TRUE]
    /\ UNCHANGED <<runPc, mqttClient, will, connected, mu, stopChan, pump, osQueue, sensor,
                   stopper, watcher, wakeHandler, bus, ghost>>
    /\ UNCHANGED <<execVars, cmdVars, connVars, instVars, wakeVars, gameVars, calcVars,
                   auxVars, moreVars>>

\* select, case <-time.After(delay): the worker goes on to s.mu.Lock()
RetryTimer(w) ==
    /\ retry[w].pc = "select"
    /\ retry' = [retry EXCEPT ![w].pc = "lock",
                              ![w].waited = Append(@, Delays[retry[w].i])]
    /\ UNCHANGED <<runPc, mqttClient, will, connected, mu, stopChan, pump, osQueue, sensor,
                   stopper, watcher, wakeHandler, bus, ghost>>
    /\ UNCHANGED <<execVars, cmdVars, connVars, instVars, wakeVars, gameVars, calcVars,
                   auxVars, moreVars>>

\* A retry worker that publishes without the IsConnected test
RetryLockedNoTest(w) ==
    /\ retry[w].pc = "lock"
    /\ mu = "free"
    /\ IF mqttClient # "nil"
       THEN LET m == PublishSensorRetained("sleep_state", "awake")
            IN  /\ mu' = "retry"
                /\ bus' = Issue(m, "retry", "field", FALSE)
                /\ retry' = [retry EXCEPT ![w].pc = "wait", ![w].token = "pending",
                                          ![w].tests = Append(@, TRUE),
                                          ![w].pubs = @ + 1]
       ELSE /\ retry' = [retry EXCEPT ![w] = RetryAdvance([@ EXCEPT !.tests = Append(@, FALSE)])]
            /\ UNCHANGED <<bus, mu>>
    /\ UNCHANGED <<runPc, mqttClient, will, connected, stopChan, pump, osQueue, sensor,
                   stopper, watcher, wakeHandler, ghost>>
    /\ UNCHANGED <<execVars, cmdVars, connVars, instVars, wakeVars, gameVars, calcVars,
                   auxVars, moreVars>>

\* s.mu.Lock(); connected: the retained awake publish is issued and waited
\* for under the lock; not connected: unlock, next delay
RetryLocked(w) ==
    /\ retry[w].pc = "lock"
    /\ mu = "free"
    /\ IF mqttClient # "nil" /\ connected
       THEN LET m == PublishSensorRetained("sleep_state", "awake")
            IN  /\ mu' = "retry"
                /\ bus' = Issue(m, "retry", "field", FALSE)
                /\ retry' = [retry EXCEPT ![w].pc = "wait", ![w].token = "pending",
                                          ![w].tests = Append(@, TRUE),
                                          ![w].pubs = @ + 1]
       ELSE /\ retry' = [retry EXCEPT ![w] =
                            RetryAdvance([@ EXCEPT !.tests = Append(@, FALSE),
                                                   !.late = @ \/ bus.status = "disconnected"])]
            /\ UNCHANGED <<bus, mu>>
    /\ UNCHANGED <<runPc, mqttClient, will, connected, stopChan, pump, osQueue, sensor,
                   stopper, watcher, wakeHandler, ghost>>
    /\ UNCHANGED <<execVars, cmdVars, connVars, instVars, wakeVars, gameVars, calcVars,
                   auxVars, moreVars>>

\* PublishSensorRetained returns; s.mu.Unlock(); return
RetryPublished(w) ==
    /\ retry[w].pc = "wait"
    /\ MayReturn(PublishSensorRetained("sleep_state", "awake"), retry[w].token)
    /\ mu' = "free"
    /\ retry' = [retry EXCEPT ![w] = RetryAfterPublish(@)]
    /\ UNCHANGED <<runPc, mqttClient, will, connected, stopChan, pump, osQueue, sensor,
                   stopper, watcher, wakeHandler, bus, ghost>>
    /\ UNCHANGED <<execVars, cmdVars, connVars, instVars, wakeVars, gameVars, calcVars,
                   auxVars, moreVars>>

RetryNext ==
    \E w \in DOMAIN retry :
        RetryAbort(w) \/ RetryTimer(w) \/ RetryLocked(w) \/ RetryPublished(w)
        \/ RetryTokenEnds(w)

-----------------------------------------------------------------------------
(* main.go: pollSensors, publishGameSensor, publishLastActive *)

\* The value of the sensor (sensors.GetRunningGame / GetLastActiveTime),
\* abstracted to its kind
SensorValue(which) == IF which = "runninggames" THEN "game" ELSE "timestamp"

\* A publishGameSensor / publishLastActive that keeps s.mu until its publish
\* is made
SensorCopyHoldsLock ==
    /\ sensor.pc = "copy"
    /\ mu = "free"
    /\ mu' = "sensor"
    /\ sensor' = [sensor EXCEPT !.pc = "publish", !.client = mqttClient]
    /\ UNCHANGED <<runPc, mqttClient, will, connected, stopChan, pump, osQueue, retry,
                   stopper, watcher, wakeHandler, bus, ghost>>
    /\ UNCHANGED <<execVars, cmdVars, connVars, instVars, wakeVars, gameVars, calcVars,
                   auxVars, moreVars>>

\* First half of publishGameSensor / publishLastActive: the sensor is read,
\* then s.mu.Lock(); client := s.mqttClient; s.mu.Unlock()
SensorCopy ==
    /\ sensor.pc = "copy"
    /\ mu = "free"
    /\ sensor' = [sensor EXCEPT !.pc = "publish", !.client = mqttClient]
    /\ UNCHANGED <<runPc, mqttClient, will, connected, mu, stopChan, pump, osQueue, retry,
                   stopper, watcher, wakeHandler, bus, ghost>>
    /\ UNCHANGED <<execVars, cmdVars, connVars, instVars, wakeVars, gameVars, calcVars,
                   auxVars, moreVars>>

\* Second half: if client != nil && client.IsConnected() { client.PublishSensor }
\* outside the lock; then the loop goes on (the second initial publish, or
\* the select)
SensorPublish ==
    /\ sensor.pc = "publish"
    /\ UNCHANGED mu
    /\ IF sensor.client # "nil" /\ connected
       THEN bus' = Issue(PublishSensor(sensor.which, SensorValue(sensor.which)),
                         "sensor", "copy", TRUE)
       ELSE UNCHANGED bus
    /\ sensor' = IF sensor.init /\ sensor.which = "runninggames"
                 THEN [sensor EXCEPT !.pc = "copy", !.which = "lastactive"]
                 ELSE [sensor EXCEPT !.pc = "select", !.which = "", !.init = FALSE,
                                     !.client = "nil"]
    /\ UNCHANGED <<runPc, mqttClient, will, connected, stopChan, pump, osQueue, retry,
                   stopper, watcher, wakeHandler, ghost>>
    /\ UNCHANGED <<execVars, cmdVars, connVars, instVars, wakeVars, gameVars, calcVars,
                   auxVars, moreVars>>

\* select, case <-gameTicker.C / case <-lastActiveTicker.C
SensorTick ==
    /\ sensor.pc = "select"
    /\ \E which \in {"runninggames", "lastactive"} :
         sensor' = [sensor EXCEPT !.pc = "copy", !.which = which]
    /\ UNCHANGED <<runPc, mqttClient, will, connected, mu, stopChan, pump, osQueue, retry,
                   stopper, watcher, wakeHandler, bus, ghost>>
    /\ UNCHANGED <<execVars, cmdVars, connVars, instVars, wakeVars, gameVars, calcVars,
                   auxVars, moreVars>>

\* select, case <-s.stopChan: return (the deferred s.wg.Done())
SensorStop ==
    /\ sensor.pc = "select"
    /\ stopChan = "closed"
    /\ sensor' = [sensor EXCEPT !.pc = "exited"]
    /\ UNCHANGED <<runPc, mqttClient, will, connected, mu, stopChan, pump, osQueue, retry,
                   stopper, watcher, wakeHandler, bus, ghost>>
    /\ UNCHANGED <<execVars, cmdVars, connVars, instVars, wakeVars, gameVars, calcVars,
                   auxVars, moreVars>>

SensorNext == SensorCopy \/ SensorPublish \/ SensorTick \/ SensorStop

-----------------------------------------------------------------------------
(* main.go: pcAgentService.stop *)

\* The steps of stop(), in the order of its statements
StopStep(s, name, next) == [pc |-> next, trace |-> Append(s.trace, name)]

\* close(s.stopChan). stop() is called after run() returned (main, Execute)
StopClose ==
    /\ runPc = "running"
    /\ stopper.pc = "idle"
    /\ stopChan' = "closed"
    /\ stopper' = StopStep(stopper, "close stop channel", "join")
    /\ UNCHANGED <<runPc, mqttClient, will, connected, mu, pump, osQueue, retry, sensor,
                   watcher, wakeHandler, bus, ghost>>
    /\ UNCHANGED <<execVars, cmdVars, connVars, instVars, wakeVars, gameVars, calcVars,
                   auxVars, moreVars>>

\* s.wg.Wait() returns once pollSensors has returned
StopJoin ==
    /\ stopper.pc = "join"
    /\ sensor.pc = "exited"
    /\ stopper' = StopStep(stopper, "join sensor loop", "stopListener")
    /\ UNCHANGED <<runPc, mqttClient, will, connected, mu, stopChan, pump, osQueue, retry,
                   sensor, watcher, wakeHandler, bus, ghost>>
    /\ UNCHANGED <<execVars, cmdVars, connVars, instVars, wakeVars, gameVars, calcVars,
                   auxVars, moreVars>>

\* s.powerListener.Stop(), up to its p.wg.Wait(): the stopped flag is set and
\* WM_QUIT is posted if the window handle is already stored
StopListenerSignal ==
    /\ stopper.pc = "stopListener"
    /\ pump' = [pump EXCEPT !.stopped = TRUE, !.quit = (pump.hwnd # 0)]
    /\ stopper' = [stopper EXCEPT !.pc = "waitPump"]
    /\ UNCHANGED <<runPc, mqttClient, will, connected, mu, stopChan, osQueue, retry,
                   sensor, watcher, wakeHandler, bus, ghost>>
    /\ UNCHANGED <<execVars, cmdVars, connVars, instVars, wakeVars, gameVars, calcVars,
                   auxVars, moreVars>>

\* p.wg.Wait() returns once listen() has returned
StopListenerJoined ==
    /\ stopper.pc = "waitPump"
    /\ pump.pc = "exited"
    /\ stopper' = StopStep(stopper, "stop power listener", "stopWatcher")
    /\ UNCHANGED <<runPc, mqttClient, will, connected, mu, stopChan, pump, osQueue, retry,
                   sensor, watcher, wakeHandler, bus, ghost>>
    /\ UNCHANGED <<execVars, cmdVars, connVars, instVars, wakeVars, gameVars, calcVars,
                   auxVars, moreVars>>

\* config.StopGameMapWatcher()
StopWatcher ==
    /\ stopper.pc = "stopWatcher"
    /\ watcher' = "stopped"
    /\ stopper' = StopStep(stopper, "stop config watcher", "disconnect")
    /\ UNCHANGED <<runPc, mqttClient, will, connected, mu, stopChan, pump, osQueue, retry,
                   sensor, wakeHandler, bus, ghost>>
    /\ UNCHANGED <<execVars, cmdVars, connVars, instVars, wakeVars, gameVars, calcVars,
                   auxVars, moreVars>>

\* s.mu.Lock(); s.mqttClient.Disconnect(500); s.mu.Unlock(); stop() returns
StopDisconnect ==
    /\ stopper.pc = "disconnect"
    /\ mu = "free"
    /\ connected' = FALSE
    /\ bus' = [bus EXCEPT !.status = "disconnected"]
    /\ stopper' = StopStep(stopper, "disconnect bus under mutex", "done")
    /\ UNCHANGED <<runPc, mqttClient, will, mu, stopChan, pump, osQueue, retry,
                   sensor, watcher, wakeHandler, ghost>>
    /\ UNCHANGED <<execVars, cmdVars, connVars, instVars, wakeVars, gameVars, calcVars,
                   auxVars, moreVars>>

StopNext ==
    \/ StopClose \/ StopJoin \/ StopListenerSignal \/ StopListenerJoined \/ StopWatcher
    \/ StopDisconnect

SupNext ==
    \/ RunNext \/ PumpNext \/ RetryNext \/ SensorNext \/ StopNext
    \/ BusUp \/ BusDown \/ RunTokenEnds \/ PumpTokenEnds \/ OsSuspend \/ OsResume

-----------------------------------------------------------------------------
(* internal/mqtt: the connect handler of the bus client *)

\* connects (the first one and the reconnects) of the client in one behaviour
MaxConnects == 2

availabilityTopic == <<"availability">>
commandTopic(name) == <<"command", name>>
notifyTopic == <<"notifications">>
discoveryTopic(component, name) == <<"discovery", component, name>>

\* c.Publish(topic, qos, retained, payload), c.Subscribe(topic, qos, handler)
Publish(topic, qos, retained, payload) ==
    [op |-> "publish", topic |-> topic, qos |-> qos, retained |-> retained,
     payload |-> payload]

Subscribe(topic, qos) ==
    [op |-> "subscribe", topic |-> topic, qos |-> qos, retained |-> FALSE,
     payload |-> ""]

\* publishDiscovery: c.Publish(<prefix>/<component>/<device>/<name>/config, 1, true, data)
publishDiscovery(component, name) ==
    Publish(discoveryTopic(component, name), 1, TRUE, "config")

\* The entities registerDiscovery announces, in the order of its statements
DiscoverySensors == <<"runninggames", "lastactive", "sleep_state">>

DiscoveryButtons ==
    <<"SteamLaunch", "Screensaver", "Wake", "Shutdown", "sleep", "discord_join",
      "discord_leave_channel">>

\* registerDiscovery: the calls it makes, in order
registerDiscovery ==
    [i \in DOMAIN DiscoverySensors |-> publishDiscovery("sensor", DiscoverySensors[i])]
    \o [i \in DOMAIN DiscoveryButtons |-> publishDiscovery("button", DiscoveryButtons[i])]

\* The commands subscribeCommands subscribes to, in order
SubscribedCommands ==
    <<"SteamLaunch", "Screensaver", "Wake", "Shutdown", "sleep", "discord_join",
      "discord_leave_channel">>

\* subscribeCommands: the calls it makes, in order
subscribeCommands ==
    [i \in DOMAIN SubscribedCommands |-> Subscribe(commandTopic(SubscribedCommands[i]), 1)]
    \o <<Subscribe(notifyTopic, 1)>>

\* A connect handler that subscribes before it announces the entities
onConnectSubscribesFirst ==
    <<Publish(availabilityTopic, 1, TRUE, "online")>> \o subscribeCommands
    \o registerDiscovery

\* onConnect: the calls it makes, in order
onConnect ==
    <<Publish(availabilityTopic, 1, TRUE, "online")>> \o registerDiscovery
    \o subscribeCommands

\* conn.up: the client is connected; conn.connects: connects so far;
\* conn.handlers: the runs of the OnConnect handler, one per connect, each
\* with the calls it has made so far (log) and whether it has logged a
\* failed subscription (failed)
ConnInit == conn = [up |-> FALSE, connects |-> 0, handlers |-> <<>>]

\* The client connects (Connect, or the automatic reconnect): the library
\* calls the OnConnect handler in a goroutine of its own
ConnUp ==
    /\ ~conn.up
    /\ conn.connects < MaxConnects
    /\ conn' = [up |-> TRUE, connects |-> conn.connects + 1,
                handlers |-> Append(conn.handlers, [log |-> <<>>, failed |-> FALSE])]
    /\ UNCHANGED <<execVars, cmdVars, supVars, instVars, wakeVars, gameVars, calcVars,
                   auxVars, moreVars>>

\* The connection is lost
ConnLost ==
    /\ conn.up
    /\ conn' = [conn EXCEPT !.up = FALSE]
    /\ UNCHANGED <<execVars, cmdVars, supVars, instVars, wakeVars, gameVars, calcVars,
                   auxVars, moreVars>>

\* The next call of a run of onConnect. A publish returns its token at once;
\* a subscription is waited for, and a failure is logged and the run goes on
OnConnectStep(h) ==
    /\ Len(conn.handlers[h].log) < Len(onConnect)
    /\ LET call == onConnect[Len(conn.handlers[h].log) + 1]
       IN  \E ok \in (IF conn.up THEN BOOLEAN ELSE {FALSE}) :
               conn' = [conn EXCEPT
                          !.handlers[h].log = Append(@, call),
                          !.handlers[h].failed = @ \/ (call.op = "subscribe" /\ ~ok)]
    /\ UNCHANGED <<execVars, cmdVars, supVars, instVars, wakeVars, gameVars, calcVars,
                   auxVars, moreVars>>

ConnNext ==
    \/ ConnUp
    \/ ConnLost
    \/ \E h \in DOMAIN conn.handlers : OnConnectStep(h)

-----------------------------------------------------------------------------
(* main.go: main and killExistingInstances, for several launches of the binary *)

\* launches of the binary in one behaviour
MaxInstances == 3

Pids == 1..MaxInstances

\* An instance: pc is "absent" (not launched), "snapshot" (in
\* killExistingInstances, before the snapshot), "walk" (walking the process
\* table; todo: the entries of the same name still to come), "sleep" (the
\* 200 ms sleep), "running" (run() has started the workers), "exited" (left
\* through stop()) or "terminated" (by TerminateProcess of another instance);
\* code: its exit code; killedWhile: its pc when it was terminated
NoInstance == [pc |-> "absent", todo |-> {}, code |-> -1, killedWhile |-> ""]

Alive(p) == inst[p].pc \in {"snapshot", "walk", "sleep", "running"}

InstInit == inst = [p \in Pids |-> NoInstance]

\* The binary is launched: main calls killExistingInstances
InstLaunch(p) ==
    /\ inst[p].pc = "absent"
    /\ \A q \in Pids : q < p => inst[q].pc # "absent"
    /\ inst' = [inst EXCEPT ![p].pc = "snapshot"]
    /\ UNCHANGED <<execVars, cmdVars, supVars, connVars, wakeVars, gameVars, calcVars,
                   auxVars, moreVars>>

\* os.Executable, CreateToolhelp32Snapshot, Process32FirstW: on a failure
\* killExistingInstances returns at once; otherwise the walk starts over the
\* processes of the same name, this one left out
InstSnapshot(p) ==
    /\ inst[p].pc = "snapshot"
    /\ \E ok \in BOOLEAN :
         inst' = IF ok
                 THEN [inst EXCEPT ![p].pc = "walk",
                                   ![p].todo = {q \in Pids \ {p} : Alive(q)}]
                 ELSE [inst EXCEPT ![p].pc = "running"]
    /\ UNCHANGED <<execVars, cmdVars, supVars, connVars, wakeVars, gameVars, calcVars,
                   auxVars, moreVars>>

\* One entry of the walk: OpenProcess(PROCESS_TERMINATE); with a handle,
\* TerminateProcess(handle, 0); without one the entry is skipped
InstKill(p, q) ==
    /\ inst[p].pc = "walk"
    /\ q \in inst[p].todo
    /\ \A r \in inst[p].todo : q <= r
    /\ \E opened \in BOOLEAN :
         inst' = IF opened /\ Alive(q)
                 THEN [inst EXCEPT ![p].todo = @ \ {q},
                                   ![q] = [pc |-> "terminated", todo |-> {}, code |-> 0,
                                           killedWhile |-> inst[q].pc]]
                 ELSE [inst EXCEPT ![p].todo = @ \ {q}]
    /\ UNCHANGED <<execVars, cmdVars, supVars, connVars, wakeVars, gameVars, calcVars,
                   auxVars, moreVars>>

\* Process32NextW returns 0: the walk is over, time.Sleep(200 ms)
InstWalkDone(p) ==
    /\ inst[p].pc = "walk"
    /\ inst[p].todo = {}
    /\ inst' = [inst EXCEPT ![p].pc = "sleep"]
    /\ UNCHANGED <<execVars, cmdVars, supVars, connVars, wakeVars, gameVars, calcVars,
                   auxVars, moreVars>>

\* killExistingInstances returns; main goes on to run(), which starts the workers
InstRun(p) ==
    /\ inst[p].pc = "sleep"
    /\ inst' = [inst EXCEPT ![p].pc = "running"]
    /\ UNCHANGED <<execVars, cmdVars, supVars, connVars, wakeVars, gameVars, calcVars,
                   auxVars, moreVars>>

\* The shutdown signal: stop(), main returns
InstStop(p) ==
    /\ inst[p].pc = "running"
    /\ inst' = [inst EXCEPT ![p].pc = "exited", ![p].code = 0]
    /\ UNCHANGED <<execVars, cmdVars, supVars, connVars, wakeVars, gameVars, calcVars,
                   auxVars, moreVars>>

InstNext ==
    \E p \in Pids :
        \/ InstLaunch(p)
        \/ InstSnapshot(p)
        \/ \E q \in Pids : InstKill(p, q)
        \/ InstWalkDone(p)
        \/ InstRun(p)
        \/ InstStop(p)

-----------------------------------------------------------------------------
(* internal/power: display wake (preventSleepTemporary, DisplayWakeHandler) *)

\* calls of OnWake and of WakeDisplay in one behaviour
MaxWakeCalls == 3

\* wake.enabled, wake.attempts: the handler's fields; wake.hmu: h.mu is
\* locked; wake.seqs: the bag of wake-sequence goroutines; wake.active:
\* sleepPreventionActive; wake.releasers: the bag of goroutines spawned by
\* preventSleepTemporary; onWakes, directs, inhibits, started: calls of
\* OnWake, of WakeDisplay, of preventSleepTemporary, and sequences started;
\* wake.es: the execution state of the goroutine's thread ("none": not
\* raised, "raised": ES_SYSTEM_REQUIRED | ES_DISPLAY_REQUIRED in force,
\* "cleared": back to ES_CONTINUOUS alone)
WakeInit ==
    \E enabled \in BOOLEAN :
        wake = [enabled |-> enabled, attempts |-> 3, hmu |-> FALSE, seqs |-> EmptyBag,
                active |-> FALSE, releasers |-> EmptyBag, onWakes |-> 0, directs |-> 0,
                inhibits |-> 0, started |-> 0, es |-> "none"]

\* A preventSleepTemporary that spawns its goroutine whatever the flag says
preventSleepTemporaryUnguarded(w) ==
    [w EXCEPT !.active = TRUE, !.releasers = BagAdd(@, "setState"),
              !.inhibits = @ + 1, !.es = "none"]

\* preventSleepTemporary: CompareAndSwap(false, true) fails: return;
\* otherwise the goroutine is spawned
preventSleepTemporary(w) ==
    IF w.active THEN [w EXCEPT !.inhibits = @ + 1]
    ELSE [w EXCEPT !.active = TRUE, !.releasers = BagAdd(@, "setState"),
                   !.inhibits = @ + 1, !.es = "none"]

\* An OnWake that does not try the lock
OnWakeUnguarded(w) ==
    [w EXCEPT !.hmu = TRUE, !.seqs = BagAdd(@, [pc |-> "settle", attempt |-> 0]),
              !.onWakes = @ + 1, !.started = @ + 1]

\* DisplayWakeHandler.OnWake: not enabled: return; TryLock fails: return;
\* otherwise the wake-sequence goroutine is spawned, holding h.mu
OnWake(w) ==
    IF ~w.enabled \/ w.hmu THEN [w EXCEPT !.onWakes = @ + 1]
    ELSE [w EXCEPT !.hmu = TRUE, !.seqs = BagAdd(@, [pc |-> "settle", attempt |-> 0]),
                   !.onWakes = @ + 1, !.started = @ + 1]

\* A call of OnWake (by the power listener's On Wake callback)
OnWakeCall ==
    /\ wake.onWakes + wake.directs < MaxWakeCalls
    /\ wake' = OnWake(wake)
    /\ UNCHANGED <<execVars, cmdVars, supVars, connVars, instVars, gameVars, calcVars,
                   auxVars, moreVars>>

\* A call of WakeDisplay: monitor on, keypress, preventSleepTemporary(30 s)
WakeDisplayCall ==
    /\ wake.onWakes + wake.directs < MaxWakeCalls
    /\ wake' = [preventSleepTemporary(wake) EXCEPT !.directs = @ + 1]
    /\ UNCHANGED <<execVars, cmdVars, supVars, connVars, instVars, gameVars, calcVars,
                   auxVars, moreVars>>

\* The wake-sequence goroutine: time.Sleep(h.initialDelay), then
\* WakeDisplayWithRetry enters its loop
SeqSettle(s) ==
    /\ s.pc = "settle"
    /\ wake' = [wake EXCEPT !.seqs = BagAdd(BagRemove(@, s), [pc |-> "attempt", attempt |-> 1])]
    /\ UNCHANGED <<execVars, cmdVars, supVars, connVars, instVars, gameVars, calcVars,
                   auxVars, moreVars>>

\* WakeDisplayWithRetry: one attempt (monitor on, 100 ms, keypress, and the
\* delay before the next attempt if there is one)
SeqAttempt(s) ==
    /\ s.pc = "attempt"
    /\ wake' = [wake EXCEPT !.seqs =
                   BagAdd(BagRemove(@, s),
                          IF s.attempt < wake.attempts
                          THEN [pc |-> "attempt", attempt |-> s.attempt + 1]
                          ELSE [pc |-> "inhibit", attempt |-> s.attempt])]
    /\ UNCHANGED <<execVars, cmdVars, supVars, connVars, instVars, gameVars, calcVars,
                   auxVars, moreVars>>

\* WakeDisplayWithRetry: preventSleepTemporary(30 s) after the attempts
SeqInhibit(s) ==
    /\ s.pc = "inhibit"
    /\ wake' = [preventSleepTemporary(wake) EXCEPT !.seqs =
                   BagAdd(BagRemove(@, s), [pc |-> "unlock", attempt |-> s.attempt])]
    /\ UNCHANGED <<execVars, cmdVars, supVars, connVars, instVars, gameVars, calcVars,
                   auxVars, moreVars>>

\* The goroutine returns: the deferred h.mu.Unlock()
SeqUnlock(s) ==
    /\ s.pc = "unlock"
    /\ wake' = [wake EXCEPT !.seqs = BagRemove(@, s), !.hmu = FALSE]
    /\ UNCHANGED <<execVars, cmdVars, supVars, connVars, instVars, gameVars, calcVars,
                   auxVars, moreVars>>

\* The goroutine of preventSleepTemporary: SetThreadExecutionState(ES_CONTINUOUS
\* | ES_SYSTEM_REQUIRED | ES_DISPLAY_REQUIRED); on 0 the flag is cleared and
\* the goroutine returns, otherwise it sleeps for the duration
ReleaserSet ==
    /\ BagIn("setState", wake.releasers)
    /\ \E ok \in BOOLEAN :
         wake' = IF ok
                 THEN [wake EXCEPT !.releasers = BagAdd(BagRemove(@, "setState"), "sleep"),
                                   !.es = "raised"]
                 ELSE [wake EXCEPT !.releasers = BagRemove(@, "setState"),
                                   !.active = FALSE]
    /\ UNCHANGED <<execVars, cmdVars, supVars, connVars, instVars, gameVars, calcVars,
                   auxVars, moreVars>>

\* A goroutine that stores false in the flag before it clears the state
ReleaserResetAfterStore ==
    /\ BagIn("sleep", wake.releasers)
    /\ wake' = [wake EXCEPT !.releasers = BagAdd(BagRemove(@, "sleep"), "store"),
                            !.active = FALSE]
    /\ UNCHANGED <<execVars, cmdVars, supVars, connVars, instVars, gameVars, calcVars,
                   auxVars, moreVars>>

\* time.Sleep(duration) is over: SetThreadExecutionState(ES_CONTINUOUS)
ReleaserReset ==
    /\ BagIn("sleep", wake.releasers)
    /\ wake' = [wake EXCEPT !.releasers = BagAdd(BagRemove(@, "sleep"), "store"),
                            !.es = "cleared"]
    /\ UNCHANGED <<execVars, cmdVars, supVars, connVars, instVars, gameVars, calcVars,
                   auxVars, moreVars>>

\* sleepPreventionActive.Store(false)
ReleaserStore ==
    /\ BagIn("store", wake.releasers)
    /\ wake' = [wake EXCEPT !.releasers = BagAdd(BagRemove(@, "store"), "log"),
                            !.active = FALSE]
    /\ UNCHANGED <<execVars, cmdVars, supVars, connVars, instVars, gameVars, calcVars,
                   auxVars, moreVars>>

\* log.Println("WakeDisplay: Sleep prevention ended"); the goroutine returns
ReleaserEnd ==
    /\ BagIn("log", wake.releasers)
    /\ wake' = [wake EXCEPT !.releasers = BagRemove(@, "log")]
    /\ UNCHANGED <<execVars, cmdVars, supVars, connVars, instVars, gameVars, calcVars,
                   auxVars, moreVars>>

WakeNext ==
    \/ OnWakeCall
    \/ WakeDisplayCall
    \/ \E s \in BagToSet(wake.seqs) : SeqSettle(s) \/ SeqAttempt(s) \/ SeqInhibit(s) \/ SeqUnlock(s)
    \/ ReleaserSet \/ ReleaserReset \/ ReleaserStore \/ ReleaserEnd

-----------------------------------------------------------------------------
(* internal/config/games.go and internal/sensors/games.go: the game map, its *)
(* file watcher, the pattern cache and GetRunningGame                        *)

\* rewrites of games.json in one behaviour
MaxWrites == 1

\* An entry of a game map: pattern -> game id
Game(pattern, gameID) == [pattern |-> pattern, gameID |-> gameID]

\* defaultGames, cut down to two of its entries
defaultGames ==
    {Game(<<"c","s","2">>, "counter_strike_2"), Game(<<"S","k","a","t","e">>, "skate")}

\* What games.json can hold: the defaults, the defaults with a pattern added,
\* a map with two patterns that match the same process, the empty map, or
\* text that is no JSON object
GamesFiles ==
    { [state |-> "valid", games |-> defaultGames],
      [state |-> "valid",
       games |-> defaultGames \cup {Game(<<"r","5","a","p","e","x">>, "apex")}],
      [state |-> "valid",
       games |-> {Game(<<"c","s">>, "cs_any"), Game(<<"c","s","2">>, "counter_strike_2")}],
      [state |-> "valid", games |-> {}],
      [state |-> "invalid", games |-> {}] }

MissingFile == [state |-> "missing", games |-> {}]

\* The process table, in enumeration order
ProcLists ==
    { <<<<"c","s","2",".","e","x","e">>>>,
      <<<<"x",".","e","x","e">>, <<"R","5","A","p","e","x",".","e","x","e">>>>,
      <<<<"c","s","2","x",".","e","x","e">>, <<"s","k","a","t","e",".","e","x","e">>>> }

\* The pattern cache before its first build, and a built one
NilCache == [nil |-> TRUE, items |-> <<>>]
Slice(items) == [nil |-> FALSE, items |-> items]

NoCall ==
    [done |-> FALSE, gameMap |-> {}, version |-> 0, cachedVersion |-> 0, cacheWasNil |-> FALSE,
     rebuilt |-> FALSE, kept |-> FALSE, patterns |-> <<>>, snapshot |-> FALSE,
     result |-> ""]

\* games.pc: "init" before InitGameMap, "ready" after; file: games.json;
\* gameMap, gameMapVersion: the variables of config; events: file events
\* queued for the watcher; watcher: "off", "running", "failed", "stopped";
\* patternCache (nil, or a slice with its items), patternVersion: the
\* variables of sensors; procs: the process table; call: the GetRunningGame call under
\* way; last: the last call that has returned; prev: the one before it (its
\* map, snapshot and result)
GameInit ==
    \E file \in GamesFiles \cup {MissingFile}, procs \in ProcLists :
        games = [pc |-> "init", file |-> file, gameMap |-> {}, gameMapVersion |-> 0,
                 events |-> 0, watcher |-> "off", writes |-> 0,
                 patternCache |-> NilCache, patternVersion |-> 0, procs |-> procs,
                 call |-> [pc |-> "idle", gameMap |-> {}, version |-> 0],
                 last |-> NoCall,
                 prev |-> [done |-> FALSE, gameMap |-> {}, snapshot |-> FALSE, result |-> ""]]

\* A loadGamesFromFile that does not count the reload
loadGamesFromFileNoBump(g) ==
    IF g.file.state # "valid" THEN g
    ELSE [g EXCEPT !.gameMap = g.file.games]

\* loadGamesFromFile: a file that cannot be read or parsed changes nothing
\* (returns false); otherwise the map is replaced and the version incremented
loadGamesFromFile(g) ==
    IF g.file.state # "valid" THEN g
    ELSE [g EXCEPT !.gameMap = g.file.games, !.gameMapVersion = @ + 1]

\* InitGameMap: without the executable's path the defaults are used and no
\* watcher is started; otherwise the file is loaded, or the defaults are
\* used and written to the file; then the watcher goroutine is started
\* (it ends at once if the watcher cannot be created)
InitGameMap ==
    /\ games.pc = "init"
    /\ \E exeOk \in BOOLEAN, saved \in BOOLEAN, watching \in BOOLEAN :
         games' =
            IF ~exeOk
            THEN [games EXCEPT !.pc = "ready", !.gameMap = defaultGames]
            ELSE LET w == IF watching THEN "running" ELSE "failed"
                 IN  IF games.file.state = "valid"
                     THEN [loadGamesFromFile(games) EXCEPT !.pc = "ready", !.watcher = w]
                     ELSE [games EXCEPT
                             !.pc = "ready", !.watcher = w, !.gameMap = defaultGames,
                             !.file = IF saved THEN [state |-> "valid", games |-> defaultGames]
                                      ELSE @]
    /\ UNCHANGED <<execVars, cmdVars, supVars, connVars, instVars, wakeVars, calcVars,
                   auxVars, moreVars>>

\* games.json is rewritten; a running watcher gets a Write event for it
FileWrite ==
    /\ games.pc = "ready"
    /\ games.writes < MaxWrites
    /\ \E file \in GamesFiles :
         games' = [games EXCEPT !.file = file, !.writes = @ + 1,
                                !.events = IF games.watcher = "running" THEN @ + 1 ELSE @]
    /\ UNCHANGED <<execVars, cmdVars, supVars, connVars, instVars, wakeVars, calcVars,
                   auxVars, moreVars>>

\* watchGamesFile, case event := <-watcher.Events, for games.json with
\* Write or Create: loadGamesFromFile()
WatcherEvent ==
    /\ games.watcher = "running"
    /\ games.events > 0
    /\ games' = [loadGamesFromFile(games) EXCEPT !.events = @ - 1]
    /\ UNCHANGED <<execVars, cmdVars, supVars, connVars, instVars, wakeVars, calcVars,
                   auxVars, moreVars>>

\* StopGameMapWatcher: close(watcherDone); watchGamesFile returns
WatcherStop ==
    /\ games.pc = "ready"
    /\ games.watcher = "running"
    /\ games' = [games EXCEPT !.watcher = "stopped"]
    /\ UNCHANGED <<execVars, cmdVars, supVars, connVars, instVars, wakeVars, calcVars,
                   auxVars, moreVars>>

\* The sequences that list every element of the set S once (the orders a
\* range over a Go map can take)
Orderings(S) ==
    {s \in [1..Cardinality(S) -> S] : \A i, j \in 1..Cardinality(S) : s[i] = s[j] => i = j}

\* getPatterns, the rebuild: one gamePattern per entry of the map
gamePattern(entry) == [patternLower |-> ToLower(entry.pattern), gameID |-> entry.gameID]

\* A getPatterns that rebuilds on every call
cacheValidNever(cachedVersion, version, cache) == FALSE

\* getPatterns: patternVersion == version && patternCache != nil
cacheValid(cachedVersion, version, cache) == cachedVersion = version /\ ~cache.nil

\* A match rule that takes only the name without its .exe suffix
matchesPatternExact(procName, baseNameLower, gp) == baseNameLower = gp.patternLower

\* GetRunningGame: strings.HasPrefix(procName, gp.patternLower) ||
\* baseNameLower == gp.patternLower
matchesPattern(procName, baseNameLower, gp) ==
    HasPrefix(procName, gp.patternLower) \/ baseNameLower = gp.patternLower

\* GetRunningGame, the inner loop: the game id of the first pattern of the
\* cache, from index k on, that the process matches, or ""
RECURSIVE firstPattern(_, _, _)
firstPattern(procName, patterns, k) ==
    IF k > Len(patterns) THEN ""
    ELSE IF matchesPattern(procName, TrimSuffix(procName, StrDotExe), patterns[k])
         THEN patterns[k].gameID
         ELSE firstPattern(procName, patterns, k + 1)

\* GetRunningGame, the outer loop over the snapshot, from entry n on
RECURSIVE scanProcesses(_, _, _)
scanProcesses(procs, patterns, n) ==
    IF n > Len(procs) THEN "none"
    ELSE LET hit == firstPattern(ToLower(procs[n]), patterns, 1)
         IN  IF hit # "" THEN hit ELSE scanProcesses(procs, patterns, n + 1)

\* GetRunningGame after getPatterns: no patterns, no snapshot or no first
\* process: "none"; otherwise the scan
GetRunningGame(patterns, snapshotOk, procs) ==
    IF Len(patterns) = 0 \/ ~snapshotOk \/ Len(procs) = 0 THEN "none"
    ELSE scanProcesses(procs, patterns, 1)

\* GetRunningGame is entered (by the sensor loop): getPatterns calls
\* config.GetGameMap(), which reads map and version under the read lock
CallStart ==
    /\ games.pc = "ready"
    /\ games.call.pc = "idle"
    /\ games' = [games EXCEPT !.call = [pc |-> "got", gameMap |-> games.gameMap,
                                        version |-> games.gameMapVersion]]
    /\ UNCHANGED <<execVars, cmdVars, supVars, connVars, instVars, wakeVars, calcVars,
                   auxVars, moreVars>>

\* The rest of the call: getPatterns returns the cache or rebuilds it (in
\* the order the range over the map takes), then the snapshot is taken and
\* scanned
CallFinish ==
    /\ games.call.pc = "got"
    /\ LET valid == cacheValid(games.patternVersion, games.call.version, games.patternCache)
       IN  \E order \in (IF valid THEN {games.patternCache.items}
                         ELSE Orderings({gamePattern(e) : e \in games.call.gameMap})),
              snapshotOk \in BOOLEAN :
               games' = [games EXCEPT
                   !.patternCache = IF valid THEN @ ELSE Slice(order),
                   !.patternVersion = IF valid THEN @ ELSE games.call.version,
                   !.call = [pc |-> "idle", gameMap |-> {}, version |-> 0],
                   !.prev = [done |-> games.last.done, gameMap |-> games.last.gameMap,
                             snapshot |-> games.last.snapshot,
                             result |-> games.last.result],
                   !.last = [done |-> TRUE, gameMap |-> games.call.gameMap,
                             version |-> games.call.version,
                             cachedVersion |-> games.patternVersion,
                             cacheWasNil |-> games.patternCache.nil,
                             rebuilt |-> ~valid,
                             kept |-> (games.patternCache = Slice(order)),
                             patterns |-> order, snapshot |-> snapshotOk,
                             result |-> GetRunningGame(order, snapshotOk, games.procs)]]
    /\ UNCHANGED <<execVars, cmdVars, supVars, connVars, instVars, wakeVars, calcVars,
                   auxVars, moreVars>>

GameNext ==
    \/ InitGameMap \/ FileWrite \/ WatcherEvent \/ WatcherStop \/ CallStart \/ CallFinish

-----------------------------------------------------------------------------
(* GetLastActiveTime (main.go, sensors) and escapeXML as functions of their *)
(* inputs                                                                   *)

\* length of the texts given to escapeXML
MaxXmlLen == 3

\* uint32 and the uint64 tick count in 16-bit limbs: [hi, lo] and
\* [top, hi, lo] (top: the bits from 32 up)
Limb == 2^16
U32(hi, lo) == [hi |-> hi, lo |-> lo]

\* uint32(tickCount): the low 32 bits
Low32(tick) == U32(tick.hi, tick.lo)

\* a - b on uint32 (wraps around)
Sub32(a, b) ==
    LET borrow == IF a.lo < b.lo THEN 1 ELSE 0
    IN  U32((a.hi + Limb - b.hi - borrow) % Limb, (a.lo + Limb - b.lo) % Limb)

\* a < b on uint32
Less32(a, b) == a.hi < b.hi \/ (a.hi = b.hi /\ a.lo < b.lo)

\* A GetLastActiveTime that takes an input time after the tick as no idle
\* time
GetLastActiveTimeSaturating(ret, tickCount, dwTime) ==
    IF ret = 0 THEN U32(0, 0)
    ELSE IF Less32(Low32(tickCount), dwTime) THEN U32(0, 0)
         ELSE Sub32(Low32(tickCount), dwTime)

\* GetLastActiveTime: the milliseconds it goes back from time.Now(); ret
\* is what GetLastInputInfo returned, dwTime what it stored
GetLastActiveTime(ret, tickCount, dwTime) ==
    IF ret = 0 THEN U32(0, 0)
    ELSE Sub32(Low32(tickCount), dwTime)

\* Limb values at the ends and in the middle of the range, 5 and 0xFFF0
LimbValues == {0, 5, 2^15, Limb - 16, Limb - 1}

\* The characters of the texts: a letter, punctuation of the entities, tab,
\* newline, a prohibited control character; none of & < > ' "
XmlChars == {"a", ";", "#", "\t", "\n", "\f"}

XmlTexts == UNION {[1..n -> XmlChars] : n \in 0..MaxXmlLen}

\* calc.fn: the function applied; pc: "called", "done" (and "once" between
\* the two applications of escapeXML); ret, tick, last: the results of
\* GetLastInputInfo and GetTickCount64; idle: the milliseconds returned;
\* text: the input of escapeXML; outs: the outputs so far
CalcInit ==
    \/ \E ret \in {0, 1}, top \in {0, 1}, th, tl, lh, ll \in LimbValues :
          calc = [fn |-> "GetLastActiveTime", pc |-> "called", ret |-> ret,
                  tick |-> [top |-> top, hi |-> th, lo |-> tl], last |-> U32(lh, ll),
                  idle |-> U32(0, 0), text |-> <<>>, outs |-> <<>>]
    \/ \E text \in XmlTexts :
          calc = [fn |-> "escapeXML", pc |-> "called", ret |-> 0,
                  tick |-> [top |-> 0, hi |-> 0, lo |-> 0], last |-> U32(0, 0),
                  idle |-> U32(0, 0), text |-> text, outs |-> <<>>]

GetLastActiveTimeCall ==
    /\ calc.fn = "GetLastActiveTime" /\ calc.pc = "called"
    /\ calc' = [calc EXCEPT !.pc = "done",
                            !.idle = GetLastActiveTime(calc.ret, calc.tick, calc.last)]
    /\ UNCHANGED <<execVars, cmdVars, supVars, connVars, instVars, wakeVars, gameVars,
                   auxVars, moreVars>>

\* escapeXML applied to the text
EscapeFirst ==
    /\ calc.fn = "escapeXML" /\ calc.pc = "called"
    /\ calc' = [calc EXCEPT !.pc = "once", !.outs = <<escapeXML(calc.text)>>]
    /\ UNCHANGED <<execVars, cmdVars, supVars, connVars, instVars, wakeVars, gameVars,
                   auxVars, moreVars>>

\* escapeXML applied to its own output
EscapeAgain ==
    /\ calc.fn = "escapeXML" /\ calc.pc = "once"
    /\ calc' = [calc EXCEPT !.pc = "done", !.outs = Append(@, escapeXML(calc.outs[1]))]
    /\ UNCHANGED <<execVars, cmdVars, supVars, connVars, instVars, wakeVars, gameVars,
                   auxVars, moreVars>>

CalcNext == GetLastActiveTimeCall \/ EscapeFirst \/ EscapeAgain

-----------------------------------------------------------------------------
(* internal/mqtt: the topic strings, pre-computed in the package's init(),  *)
(* and config.DeviceName, set by LoadUserConfig                             *)

DiscoveryPrefix == "homeassistant"

\* fmt.Sprintf("%s/sensor/%s/availability", ...): a topic is the sequence of
\* its levels (the texts between the slashes)
formatAvailabilityTopic(deviceName) == <<DiscoveryPrefix, "sensor", deviceName, "availability">>

\* fmt.Sprintf("%s/sensor/%s/%s/state", ...)
formatSensorTopic(deviceName, name) == <<DiscoveryPrefix, "sensor", deviceName, name, "state">>

\* fmt.Sprintf("%s/button/%s/%s/action", ...)
formatCommandTopic(deviceName, name) == <<DiscoveryPrefix, "button", deviceName, name, "action">>

\* The names init() pre-computes topics for
PrecomputedSensors == {"runninggames", "lastactive", "sleep_state"}
PrecomputedCommands == {"SteamLaunch", "Screensaver", "Wake", "Shutdown", "sleep",
                        "discord_join", "discord_leave_channel"}

\* device_name values of userConfig.json
DeviceNames == {"gaming-pc", "pc", "PC_1", "htpc", "desk", "x"}

\* Names topics are asked for: the pre-computed ones and others
SensorNames == PrecomputedSensors \cup {"cpu_load", "battery"}
ButtonNames == PrecomputedCommands \cup {"notification", "reboot"}

NoTopicUse == [kind |-> "none", name |-> "", topic |-> <<>>]

\* topics.pc: "init" (package initialisation), "main" (run() not yet at
\* LoadUserConfig), "running", "fatal"; file: device_name of the config
\* file; DeviceName: config.DeviceName (a string variable, "" until set);
\* cached...: the package variables of the bus wrapper; used: the last topic
\* a publish or subscribe asked for
TopicsInit ==
    \E d \in DeviceNames :
        topics = [pc |-> "init", file |-> d, DeviceName |-> "",
                  cachedAvailabilityTopic |-> <<>>, cachedSensorTopics |-> <<>>,
                  cachedCommandTopics |-> <<>>, used |-> NoTopicUse]

\* init() of the bus wrapper's package: the topics are formatted with the
\* value config.DeviceName has at that moment
topicsInit(t) ==
    [t EXCEPT
        !.cachedAvailabilityTopic = formatAvailabilityTopic(t.DeviceName),
        !.cachedSensorTopics = [n \in PrecomputedSensors |-> formatSensorTopic(t.DeviceName, n)],
        !.cachedCommandTopics = [n \in PrecomputedCommands |-> formatCommandTopic(t.DeviceName, n)]]

\* availabilityTopic()
availabilityTopicOf(t) == t.cachedAvailabilityTopic

\* sensorTopic(name): the cached topic, or formatted on demand
sensorTopic(t, name) ==
    IF name \in DOMAIN t.cachedSensorTopics THEN t.cachedSensorTopics[name]
    ELSE formatSensorTopic(t.DeviceName, name)

\* commandTopic(name): the cached topic, or formatted on demand
commandTopicOf(t, name) ==
    IF name \in DOMAIN t.cachedCommandTopics THEN t.cachedCommandTopics[name]
    ELSE formatCommandTopic(t.DeviceName, name)

\* Package initialisation runs before main: init() of the bus wrapper
TopicsPackageInit ==
    /\ topics.pc = "init"
    /\ topics' = [topicsInit(topics) EXCEPT !.pc = "main"]
    /\ UNCHANGED <<execVars, cmdVars, supVars, connVars, instVars, wakeVars, gameVars,
                   calcVars, cfg, lst, moreVars>>

\* run(): config.LoadUserConfig(); loadConfigFromFile sets DeviceName, or
\* fails (log.Fatalf)
TopicsLoadUserConfig ==
    /\ topics.pc = "main"
    /\ \E ok \in BOOLEAN :
         topics' = IF ok THEN [topics EXCEPT !.pc = "running", !.DeviceName = topics.file]
                   ELSE [topics EXCEPT !.pc = "fatal"]
    /\ UNCHANGED <<execVars, cmdVars, supVars, connVars, instVars, wakeVars, gameVars,
                   calcVars, cfg, lst, moreVars>>

\* A publish or subscribe of the bus wrapper asks for a topic
TopicUse ==
    /\ topics.pc = "running"
    /\ \/ topics' = [topics EXCEPT !.used = [kind |-> "availability", name |-> "",
                                             topic |-> availabilityTopicOf(topics)]]
       \/ \E n \in SensorNames :
            topics' = [topics EXCEPT !.used = [kind |-> "sensor", name |-> n,
                                               topic |-> sensorTopic(topics, n)]]
       \/ \E n \in ButtonNames :
            topics' = [topics EXCEPT !.used = [kind |-> "command", name |-> n,
                                               topic |-> commandTopicOf(topics, n)]]
    /\ UNCHANGED <<execVars, cmdVars, supVars, connVars, instVars, wakeVars, gameVars,
                   calcVars, cfg, lst, moreVars>>

TopicsNext == TopicsPackageInit \/ TopicsLoadUserConfig \/ TopicUse

-----------------------------------------------------------------------------
(* internal/config/config.go: loadConfigFromFile and validateConfig *)

StrMyPc == <<"m","y","-","p","c">>
StrPcAgent == <<"p","c","-","a","g","e","n","t","-">>

\* device_name values: absent, the default of the example file, valid
\* names, names with a blank, a tab, a newline, a carriage return
ConfigDeviceNames ==
    { <<>>, StrMyPc, <<"p","c">>, <<"m","y","-","p","c","2">>, <<"m","y"," ","p","c">>,
      <<"p","c","\t">>, <<"\n","p","c">>, <<"p","c","\r">> }

\* mqtt.broker values with what url.Parse makes of them: err (a parse
\* error), Scheme and Host
Broker(text, err, scheme, host) == [text |-> text, err |-> err, scheme |-> scheme, host |-> host]
ConfigBrokers ==
    { Broker("", FALSE, "", ""),
      Broker("tcp://broker:1883", FALSE, "tcp", "broker:1883"),
      Broker("wss://broker", FALSE, "wss", "broker"),
      Broker("http://broker", FALSE, "http", "broker"),
      Broker("tcp://", FALSE, "tcp", ""),
      Broker("mqtt://", FALSE, "mqtt", ""),
      Broker("localhost", FALSE, "", ""),
      Broker("://broker", TRUE, "", "") }

ConfigIntervals == {-1, 0, 7}

\* mqtt.client_id values: absent, or given
ConfigClientIDs == {<<>>, <<"i","d","1">>}

\* games values (sets of entries; a JSON object has each key once)
ConfigGames ==
    { {}, {Game(<<"c","s","2">>, "counter_strike_2")},
      {Game(<<>>, "x")}, {Game(<<"a">>, "")}, {Game(<<>>, "")},
      {Game(<<"a">>, ""), Game(<<"b">>, "y")} }

\* strings.ContainsAny(s, chars)
ContainsAny(s, chars) == \E i \in DOMAIN s : s[i] \in chars

\* strings.ReplaceAll(s, "-", "_")
ReplaceDash(s) == [i \in DOMAIN s |-> IF s[i] = "-" THEN "_" ELSE s[i]]

\* The configuration globals before LoadUserConfig: Go's zero values
ZeroGlobals ==
    [DeviceName |-> <<>>, DeviceID |-> <<>>, MQTTBroker |-> "", MQTTClientID |-> <<>>,
     GameSensorInterval |-> 0, LastActiveInterval |-> 0, AvailabilityInterval |-> 0,
     gameMap |-> {}]

\* validateConfig: the error texts collected, in order; order is the order
\* in which the range over cfg.Games takes the entries
RECURSIVE gameErrors(_, _)
gameErrors(order, k) ==
    IF k > Len(order) THEN <<>>
    ELSE (IF order[k].pattern = <<>> THEN <<"games map has empty process pattern">> ELSE <<>>)
         \o (IF order[k].gameID = "" THEN <<"games has empty game ID">> ELSE <<>>)
         \o gameErrors(order, k + 1)

validateConfig(c, order) ==
    (IF c.DeviceName = <<>> THEN <<"device_name is required">>
     ELSE IF c.DeviceName = StrMyPc THEN <<"device_name is still the default">>
     ELSE IF ContainsAny(c.DeviceName, {" ", "\t", "\n"})
          THEN <<"device_name cannot contain whitespace">>
     ELSE <<>>)
    \o (IF c.Broker.text = "" THEN <<>>
        ELSE IF c.Broker.err THEN <<"mqtt.broker is not a valid URL">>
        ELSE IF c.Broker.scheme \notin {"tcp", "ssl", "ws", "wss"}
             THEN <<"mqtt.broker has unsupported scheme">>
        ELSE IF c.Broker.host = "" THEN <<"mqtt.broker is missing host">>
        ELSE <<>>)
    \o (IF c.GameSensor < 0 THEN <<"intervals.game_sensor cannot be negative">> ELSE <<>>)
    \o (IF c.LastActive < 0 THEN <<"intervals.last_active cannot be negative">> ELSE <<>>)
    \o (IF c.Availability < 0 THEN <<"intervals.availability cannot be negative">> ELSE <<>>)
    \o gameErrors(order, 1)

\* A loadConfigFromFile that copies the fields and has no defaults
populateGlobalsNoDefaults(g, c) ==
    [DeviceName |-> c.DeviceName, DeviceID |-> ReplaceDash(c.DeviceName),
     MQTTBroker |-> c.Broker.text, MQTTClientID |-> c.ClientID,
     GameSensorInterval |-> c.GameSensor, LastActiveInterval |-> c.LastActive,
     AvailabilityInterval |-> c.Availability,
     gameMap |-> IF c.Games # {} THEN c.Games ELSE g.gameMap]

\* loadConfigFromFile after a successful validation: the globals, with the
\* defaults for absent fields; setInitialGameMap only for a non-empty map
populateGlobals(g, c) ==
    [DeviceName |-> c.DeviceName, DeviceID |-> ReplaceDash(c.DeviceName),
     MQTTBroker |-> IF c.Broker.text = "" THEN "tcp://homeassistant.local:1883"
                    ELSE c.Broker.text,
     MQTTClientID |-> IF c.ClientID = <<>> THEN StrPcAgent \o c.DeviceName ELSE c.ClientID,
     GameSensorInterval |-> IF c.GameSensor = 0 THEN 5 ELSE c.GameSensor,
     LastActiveInterval |-> IF c.LastActive = 0 THEN 10 ELSE c.LastActive,
     AvailabilityInterval |-> IF c.Availability = 0 THEN 30 ELSE c.Availability,
     gameMap |-> IF c.Games # {} THEN c.Games ELSE g.gameMap]

\* cfg.pc: "called", "returned"; file: the fields of userConfig.json (the
\* credentials are left out); globals: the package
\* variables; err: "" or the kind of the error returned; errors: the texts
\* of a validation error
CfgInit ==
    \E d \in ConfigDeviceNames, b \in ConfigBrokers, gs, la, av \in ConfigIntervals,
       gm \in ConfigGames, id \in ConfigClientIDs :
        cfg = [pc |-> "called",
               file |-> [DeviceName |-> d, Broker |-> b, ClientID |-> id, GameSensor |-> gs,
                         LastActive |-> la, Availability |-> av, Games |-> gm],
               globals |-> ZeroGlobals, err |-> "", errors |-> <<>>]

\* loadConfigFromFile: read and parse errors return before the validation;
\* a validation error returns before the globals are set
loadConfigFromFile ==
    /\ cfg.pc = "called"
    /\ \E readOk \in BOOLEAN, order \in Orderings(cfg.file.Games) :
         LET errors == validateConfig(cfg.file, order)
         IN  cfg' = IF ~readOk THEN [cfg EXCEPT !.pc = "returned", !.err = "read or parse"]
                    ELSE IF Len(errors) > 0
                         THEN [cfg EXCEPT !.pc = "returned", !.err = "validation",
                                          !.errors = errors]
                    ELSE [cfg EXCEPT !.pc = "returned",
                                     !.globals = populateGlobals(cfg.globals, cfg.file)]
    /\ UNCHANGED <<execVars, cmdVars, supVars, connVars, instVars, wakeVars, gameVars,
                   calcVars, topics, lst, moreVars>>

CfgNext == loadConfigFromFile

-----------------------------------------------------------------------------
(* internal/power/events.go: PowerEventListener (Start, Stop, listen,
   monitorHeartbeat), each thread at the grain of its reads and writes of the
   shared fields *)

\* ticks of the watchdog's 60 s ticker in one behaviour
MaxTicks == 2

\* power broadcasts the operating system sends to the window in one behaviour
MaxBroadcasts == 1

\* Results of CreateWindowExW: 0 (failure) or a window handle
WindowHandles == {0, 1}

\* NewPowerEventListener: heartbeatDone open, lastHeartbeat = now; no thread
\* runs yet.
\*   pump:   position of listen();  win: its local hwnd;  msg: its MSG
\*   hwnd:   p.hwnd;  window: the window itself;  queue: its message queue
\*   stop:   position of Stop();  stopHwnd: its local hwnd
\*   hb:     position of monitorHeartbeat();  tick: ticker.C holds a tick;
\*           timer: the channel of time.After(5 s) holds its value
\*   beat:   lastHeartbeat is within 70 s of now ("fresh") or not ("stale")
\*   after:  what the watchdog did with heartbeatDone already closed
LstInit ==
    lst = [started |-> FALSE, pump |-> "off", win |-> 0, msg |-> "", hwnd |-> 0,
           window |-> "none", queue |-> <<>>, stopped |-> FALSE, done |-> FALSE,
           stop |-> "idle", stopHwnd |-> 0, hb |-> "off", tick |-> FALSE,
           timer |-> FALSE, ticks |-> 0, broadcasts |-> 0, beat |-> "fresh",
           after |-> {}]

\* PostMessageW(h, m): the message is queued if h is the handle of a window
\* that exists
PostMessageW(l, h, m) ==
    IF h # 0 /\ l.window = "live" THEN Append(l.queue, m) ELSE l.queue

\* listen() returns: the deferred function destroys the window if p.hwnd is
\* set and clears p.hwnd; the deferred p.wg.Done()
listenReturn(l) ==
    [l EXCEPT !.pump = "exited", !.hwnd = 0,
              !.window = IF l.hwnd # 0 THEN "destroyed" ELSE l.window]

\* Start(): p.wg.Add(1); go p.listen(); go p.monitorHeartbeat()
LstStart ==
    /\ ~lst.started
    /\ lst' = [lst EXCEPT !.started = TRUE, !.pump = "create", !.hb = "tickWait"]
    /\ UNCHANGED <<execVars, cmdVars, supVars, connVars, instVars, wakeVars, gameVars,
                   calcVars, topics, cfg, moreVars>>

\* listen(): RegisterClassExW, CreateWindowExW; the result is not tested
LstCreateWindow ==
    /\ lst.pump = "create"
    /\ \E h \in WindowHandles :
         lst' = [lst EXCEPT !.pump = "store", !.win = h,
                            !.window = IF h # 0 THEN "live" ELSE "none"]
    /\ UNCHANGED <<execVars, cmdVars, supVars, connVars, instVars, wakeVars, gameVars,
                   calcVars, topics, cfg, moreVars>>

\* listen(): p.mu.Lock(); p.hwnd = hwnd; p.mu.Unlock(); the pump enters its loop
LstStoreHwnd ==
    /\ lst.pump = "store"
    /\ lst' = [lst EXCEPT !.pump = "getmsg", !.hwnd = lst.win]
    /\ UNCHANGED <<execVars, cmdVars, supVars, connVars, instVars, wakeVars, gameVars,
                   calcVars, topics, cfg, moreVars>>

\* GetMessageW blocks until the queue holds a message; it returns 0 for
\* WM_QUIT, and listen() returns
LstGetMessage ==
    /\ lst.pump = "getmsg"
    /\ lst.queue # <<>>
    /\ LET l == [lst EXCEPT !.queue = Tail(lst.queue)]
       IN  lst' = IF Head(lst.queue) = "quit" THEN listenReturn(l)
                  ELSE [l EXCEPT !.pump = "gotmsg", !.msg = Head(lst.queue)]
    /\ UNCHANGED <<execVars, cmdVars, supVars, connVars, instVars, wakeVars, gameVars,
                   calcVars, topics, cfg, moreVars>>

\* if p.stopped.Load() { return }; DispatchMessageW: wndProc stores the time
\* for WM_APP_HEARTBEAT (the power callbacks are left out here)
LstDispatch ==
    /\ lst.pump = "gotmsg"
    /\ lst' = IF lst.stopped THEN listenReturn(lst)
              ELSE [lst EXCEPT !.pump = "getmsg", !.msg = "",
                               !.beat = IF lst.msg = "heartbeat" THEN "fresh" ELSE @]
    /\ UNCHANGED <<execVars, cmdVars, supVars, connVars, instVars, wakeVars, gameVars,
                   calcVars, topics, cfg, moreVars>>

\* The operating system broadcasts a power event to the window
LstBroadcast ==
    /\ lst.window = "live"
    /\ lst.broadcasts < MaxBroadcasts
    /\ lst' = [lst EXCEPT !.queue = Append(@, "power"), !.broadcasts = @ + 1]
    /\ UNCHANGED <<execVars, cmdVars, supVars, connVars, instVars, wakeVars, gameVars,
                   calcVars, topics, cfg, moreVars>>

\* Time passes: lastHeartbeat is more than 70 s old
LstClock ==
    /\ lst.started
    /\ lst.beat = "fresh"
    /\ lst' = [lst EXCEPT !.beat = "stale"]
    /\ UNCHANGED <<execVars, cmdVars, supVars, connVars, instVars, wakeVars, gameVars,
                   calcVars, topics, cfg, moreVars>>

\* Stop(): p.stopped.Store(true)
StopStore ==
    /\ lst.started
    /\ lst.stop = "idle"
    /\ lst' = [lst EXCEPT !.stop = "close", !.stopped = TRUE]
    /\ UNCHANGED <<execVars, cmdVars, supVars, connVars, instVars, wakeVars, gameVars,
                   calcVars, topics, cfg, moreVars>>

\* Stop(): close(p.heartbeatDone)
StopCloseDone ==
    /\ lst.stop = "close"
    /\ lst' = [lst EXCEPT !.stop = "read", !.done = TRUE]
    /\ UNCHANGED <<execVars, cmdVars, supVars, connVars, instVars, wakeVars, gameVars,
                   calcVars, topics, cfg, moreVars>>

\* Stop(): p.mu.Lock(); hwnd := p.hwnd; p.mu.Unlock()
StopReadHwnd ==
    /\ lst.stop = "read"
    /\ lst' = [lst EXCEPT !.stop = "post", !.stopHwnd = lst.hwnd]
    /\ UNCHANGED <<execVars, cmdVars, supVars, connVars, instVars, wakeVars, gameVars,
                   calcVars, topics, cfg, moreVars>>

\* Stop(): if hwnd != 0 { PostMessageW(hwnd, WM_QUIT) }; then p.wg.Wait()
StopPostQuit ==
    /\ lst.stop = "post"
    /\ lst' = [lst EXCEPT !.stop = "wait", !.queue = PostMessageW(lst, lst.stopHwnd, "quit")]
    /\ UNCHANGED <<execVars, cmdVars, supVars, connVars, instVars, wakeVars, gameVars,
                   calcVars, topics, cfg, moreVars>>

\* p.wg.Wait() returns once listen() has returned; Stop() returns
StopWait ==
    /\ lst.stop = "wait"
    /\ lst.pump = "exited"
    /\ lst' = [lst EXCEPT !.stop = "returned"]
    /\ UNCHANGED <<execVars, cmdVars, supVars, connVars, instVars, wakeVars, gameVars,
                   calcVars, topics, cfg, moreVars>>

\* The 60 s ticker puts a tick into ticker.C (a channel of capacity 1) until
\* the deferred ticker.Stop()
HbTickerFires ==
    /\ lst.hb \notin {"off", "exited"}
    /\ ~lst.tick
    /\ lst.ticks < MaxTicks
    /\ lst' = [lst EXCEPT !.tick = TRUE, !.ticks = @ + 1]
    /\ UNCHANGED <<execVars, cmdVars, supVars, connVars, instVars, wakeVars, gameVars,
                   calcVars, topics, cfg, moreVars>>

\* case <-p.heartbeatDone: return, in either select
HbDone ==
    /\ lst.hb \in {"tickWait", "responseWait"}
    /\ lst.done
    /\ lst' = [lst EXCEPT !.hb = "exited"]
    /\ UNCHANGED <<execVars, cmdVars, supVars, connVars, instVars, wakeVars, gameVars,
                   calcVars, topics, cfg, moreVars>>

\* case <-ticker.C, in the first select: a select takes any of its ready
\* cases, so this one also when heartbeatDone is closed
HbTick ==
    /\ lst.hb = "tickWait"
    /\ lst.tick
    /\ lst' = [lst EXCEPT !.hb = "post", !.tick = FALSE]
    /\ UNCHANGED <<execVars, cmdVars, supVars, connVars, instVars, wakeVars, gameVars,
                   calcVars, topics, cfg, moreVars>>

\* hwnd := p.hwnd under p.mu; if hwnd != 0 { PostMessageW(hwnd,
\* WM_APP_HEARTBEAT) }; the second select starts its 5 s timer
HbPost ==
    /\ lst.hb = "post"
    /\ lst' = [lst EXCEPT !.hb = "responseWait", !.timer = FALSE,
                          !.queue = PostMessageW(lst, lst.hwnd, "heartbeat"),
                          !.after = IF lst.done /\ lst.hwnd # 0
                                    THEN @ \cup {"heartbeat"} ELSE @]
    /\ UNCHANGED <<execVars, cmdVars, supVars, connVars, instVars, wakeVars, gameVars,
                   calcVars, topics, cfg, moreVars>>

\* The 5 s of time.After run out
HbTimerFires ==
    /\ lst.hb = "responseWait"
    /\ ~lst.timer
    /\ lst' = [lst EXCEPT !.timer = TRUE]
    /\ UNCHANGED <<execVars, cmdVars, supVars, connVars, instVars, wakeVars, gameVars,
                   calcVars, topics, cfg, moreVars>>

\* case <-time.After(5 s), in the second select, also when heartbeatDone is
\* closed; then the test of lastHeartbeat and the warning
HbTimeout ==
    /\ lst.hb = "responseWait"
    /\ lst.timer
    /\ lst' = [lst EXCEPT !.hb = "tickWait", !.timer = FALSE,
                          !.after = IF lst.done /\ lst.beat = "stale"
                                    THEN @ \cup {"warning"} ELSE @]
    /\ UNCHANGED <<execVars, cmdVars, supVars, connVars, instVars, wakeVars, gameVars,
                   calcVars, topics, cfg, moreVars>>

LstNext ==
    \/ LstStart \/ LstCreateWindow \/ LstStoreHwnd \/ LstGetMessage \/ LstDispatch
    \/ LstBroadcast \/ LstClock
    \/ StopStore \/ StopCloseDone \/ StopReadHwnd \/ StopPostQuit \/ StopWait
    \/ HbTickerFires \/ HbDone \/ HbTick \/ HbPost \/ HbTimerFires \/ HbTimeout

-----------------------------------------------------------------------------
(* internal/commands: expandWindowsEnv, one iteration of its loop at a time,
   in environments whose values may hold % characters *)

\* An environment of one variable
Env1(name, value) == [n \in {name} |-> value]

\* Process environments: empty; a value without %; a value with one %; a
\* value that is a token naming its own variable; two variables whose
\* values name each other
ExpandEnvs ==
    { [n \in {} |-> <<>>],
      Env1(<<"x">>, <<"C",":","\\","W">>),
      Env1(<<"x">>, <<"5","0","%">>),
      Env1(<<"x">>, <<"%","x","%">>),
      [n \in {<<"x">>, <<"y">>} |-> IF n = <<"x">> THEN <<"%","y","%">> ELSE <<"%","x","%">>] }

\* Command strings handed to expandWindowsEnv
ExpandInputs ==
    { <<>>,
      <<"a","b">>,
      <<"1","0","0","%">>,
      <<"%","x","%">>,
      <<"%","X","%","\\","s">>,
      <<"a","%","x","%","b","%">>,
      <<"%","x","%","%","x","%">>,
      <<"%","z","%","c">>,
      <<"%","%">>,
      <<"a","%","z","%","%","x","%">> }

\* One pass of the loop body on result: brk is TRUE when the loop is left
\* (no %, or no second %); otherwise name is the token's variable and
\* result the text with the token replaced by os.Getenv(name)
expandIteration(env, result) ==
    LET start == Index(result, <<"%">>)
        end0 == IF start = -1 THEN -1 ELSE Index(Drop(result, start + 1), <<"%">>)
        end == end0 + start + 1
        varName == SubSeq(result, start + 2, end)
    IN  IF start = -1 \/ end0 = -1
        THEN [brk |-> TRUE, name |-> <<>>, result |-> result]
        ELSE [brk |-> FALSE, name |-> varName,
              result |-> Take(result, start) \o Getenv(env, varName) \o Drop(result, end + 1)]

\* expandWindowsEnv(s) is called: result := s
ExpandInit ==
    \E env \in ExpandEnvs, s \in ExpandInputs :
        expand = [env |-> env, input |-> s, result |-> s, pc |-> "loop", name |-> <<>>,
                  unset |-> FALSE]

\* The loop finds a token and substitutes it. name, unset: the variable of
\* the token just replaced, and whether it was unset
ExpandSubstitute ==
    /\ expand.pc = "loop"
    /\ LET it == expandIteration(expand.env, expand.result)
       IN  /\ ~it.brk
           /\ expand' = [expand EXCEPT !.result = it.result, !.name = it.name,
                                       !.unset = (ToLower(it.name) \notin DOMAIN expand.env)]
    /\ UNCHANGED <<execVars, cmdVars, supVars, connVars, instVars, wakeVars, gameVars,
                   calcVars, auxVars, watch, pcache, console>>

\* The loop finds no token: break; return result
ExpandReturn ==
    /\ expand.pc = "loop"
    /\ expandIteration(expand.env, expand.result).brk
    /\ expand' = [expand EXCEPT !.pc = "returned"]
    /\ UNCHANGED <<execVars, cmdVars, supVars, connVars, instVars, wakeVars, gameVars,
                   calcVars, auxVars, watch, pcache, console>>

ExpandNext == ExpandSubstitute \/ ExpandReturn

-----------------------------------------------------------------------------
(* internal/config/games.go: watchGamesFile, event by event *)

\* file-system events in the watched directory in one behaviour
MaxFsEvents == 3

\* errors the watcher reports in one behaviour
MaxWatchErrors == 1

\* filepath.Base(gamesPath), and another file of the same directory
StrGamesJson == "games.json"
WatchNames == {StrGamesJson, "userConfig.json"}

\* fsnotify.Op, a set of flags; the events the watcher delivers have one
WatchOps == {{"Create"}, {"Write"}, {"Remove"}, {"Rename"}, {"Chmod"}}

\* What games.json holds after an operation op on it: written or created, any
\* content (or none that can be read); removed or renamed away, no file;
\* otherwise what it held
FilesAfter(name, op, file) ==
    IF name # StrGamesJson \/ op = {"Chmod"} THEN {file}
    ELSE IF op \cap {"Write", "Create"} # {} THEN GamesFiles \cup {MissingFile}
         ELSE {MissingFile}

NoEvent == [name |-> "", op |-> {}]

\* watch.file: games.json; gameMap, gameMapVersion: the variables of config;
\* queue: watcher.Events; errors: errors received from watcher.Errors;
\* watcher: "running" or "stopped"; done: watcherDone is closed; changes: file
\* events so far; failed: a reload has failed; last: the last event the
\* watcher received (the event, the calls of loadGamesFromFile it made, the
\* file as it was then, whether the load returned true, map and version
\* before it)
WatchInit ==
    \E file \in GamesFiles \cup {MissingFile} :
        LET g == loadGamesFromFile([file |-> file, gameMap |-> defaultGames,
                                    gameMapVersion |-> 0])
        IN  watch = [file |-> file, gameMap |-> g.gameMap,
                     gameMapVersion |-> g.gameMapVersion,
                     queue |-> <<>>, errors |-> 0, watcher |-> "running", done |-> FALSE,
                     changes |-> 0, failed |-> FALSE,
                     last |-> [handled |-> FALSE, event |-> NoEvent, calls |-> 0,
                               file |-> MissingFile, ok |-> FALSE, gameMap |-> {},
                               gameMapVersion |-> 0]]

\* The operating system: an operation on a file of the watched directory;
\* the watcher, while it runs, queues the event for it
FsEvent ==
    /\ watch.changes < MaxFsEvents
    /\ \E name \in WatchNames, op \in WatchOps :
         \E file \in FilesAfter(name, op, watch.file) :
            watch' = [watch EXCEPT
                         !.file = file, !.changes = @ + 1,
                         !.queue = IF watch.watcher = "running"
                                   THEN Append(@, [name |-> name, op |-> op]) ELSE @]
    /\ UNCHANGED <<execVars, cmdVars, supVars, connVars, instVars, wakeVars, gameVars,
                   calcVars, auxVars, expand, pcache, console>>

\* A watcher that reloads for every event of the directory
watchEventReloadsAnyName(event) == event.op \cap {"Write", "Create"} # {}

\* watchGamesFile: filepath.Base(event.Name) == filename and
\* event.Op&(fsnotify.Write|fsnotify.Create) != 0
watchEventReloads(event) ==
    event.name = StrGamesJson /\ event.op \cap {"Write", "Create"} # {}

\* A watcher that returns when a reload has failed
watchAfterEventEndsOnFailure(w, event) ==
    IF watchEventReloads(event)
    THEN [loadGamesFromFile(w) EXCEPT
              !.failed = @ \/ w.file.state # "valid",
              !.watcher = IF w.file.state # "valid" THEN "stopped" ELSE @]
    ELSE w

\* watchGamesFile, the body of case event := <-watcher.Events: the reload
\* for an event of games.json, its result dropped; the loop goes on
watchAfterEvent(w, event) ==
    IF watchEventReloads(event)
    THEN [loadGamesFromFile(w) EXCEPT !.failed = @ \/ w.file.state # "valid"]
    ELSE w

\* select, case event, ok := <-watcher.Events
WatchEvent ==
    /\ watch.watcher = "running"
    /\ watch.queue # <<>>
    /\ LET event == Head(watch.queue)
           calls == IF watchEventReloads(event) THEN 1 ELSE 0
       IN  watch' = [watchAfterEvent(watch, event) EXCEPT
                        !.queue = Tail(watch.queue),
                        !.last = [handled |-> TRUE, event |-> event, calls |-> calls,
                                  file |-> watch.file,
                                  ok |-> (calls = 1 /\ watch.file.state = "valid"),
                                  gameMap |-> watch.gameMap,
                                  gameMapVersion |-> watch.gameMapVersion]]
    /\ UNCHANGED <<execVars, cmdVars, supVars, connVars, instVars, wakeVars, gameVars,
                   calcVars, auxVars, expand, pcache, console>>

\* select, case err, ok := <-watcher.Errors: the error is logged
WatchError ==
    /\ watch.watcher = "running"
    /\ watch.errors < MaxWatchErrors
    /\ watch' = [watch EXCEPT !.errors = @ + 1]
    /\ UNCHANGED <<execVars, cmdVars, supVars, connVars, instVars, wakeVars, gameVars,
                   calcVars, auxVars, expand, pcache, console>>

\* StopGameMapWatcher: close(watcherDone); select, case <-watcherDone: return
WatchStop ==
    /\ watch.watcher = "running"
    /\ watch' = [watch EXCEPT !.watcher = "stopped", !.done = TRUE]
    /\ UNCHANGED <<execVars, cmdVars, supVars, connVars, instVars, wakeVars, gameVars,
                   calcVars, auxVars, expand, pcache, console>>

WatchNext == FsEvent \/ WatchEvent \/ WatchError \/ WatchStop

-----------------------------------------------------------------------------
(* internal/sensors/games.go: getPatterns, called by several goroutines *)

\* goroutines that call getPatterns
MaxCallers == 2

\* reloads of the game map in one behaviour
MaxReloads == 2

\* The game maps a reload can bring
ReloadMaps == {f.games : f \in {g \in GamesFiles : g.state = "valid"}}

\* pcache.gameMap, gameMapVersion: the variables of config; maps: the map
\* each version had (maps[v + 1] for version v); patternCache, patternVersion:
\* the variables of sensors; patternMu: 0 (no writer) or the caller that holds
\* the write lock; callers: for each goroutine its place in getPatterns
\* ("idle", "fast", "slow", "rebuild") and the map and version it got from
\* config.GetGameMap(); returned: what its last call returned
PcacheInit ==
    pcache = [gameMap |-> defaultGames, gameMapVersion |-> 0, maps |-> <<defaultGames>>,
              patternCache |-> NilCache, patternVersion |-> 0, patternMu |-> 0,
              callers |-> [c \in 1..MaxCallers |->
                             [pc |-> "idle", gameMap |-> {}, version |-> 0,
                              returned |-> NilCache]]]

\* loadGamesFromFile with a valid file (by the watcher): the map is replaced,
\* the version incremented
PcacheReload ==
    /\ pcache.gameMapVersion < MaxReloads
    /\ \E m \in ReloadMaps :
         pcache' = [pcache EXCEPT !.gameMap = m, !.gameMapVersion = @ + 1,
                                  !.maps = Append(@, m)]
    /\ UNCHANGED <<execVars, cmdVars, supVars, connVars, instVars, wakeVars, gameVars,
                   calcVars, auxVars, expand, watch, console>>

\* getPatterns: gameMap, version := config.GetGameMap()
GetGameMap(c) ==
    /\ pcache.callers[c].pc = "idle"
    /\ pcache' = [pcache EXCEPT !.callers[c] =
                     [@ EXCEPT !.pc = "fast", !.gameMap = pcache.gameMap,
                               !.version = pcache.gameMapVersion]]
    /\ UNCHANGED <<execVars, cmdVars, supVars, connVars, instVars, wakeVars, gameVars,
                   calcVars, auxVars, expand, watch, console>>

\* The fast path, under patternMu.RLock(): a valid cache is returned,
\* otherwise the caller goes on to patternMu.Lock()
FastPath(c) ==
    /\ pcache.callers[c].pc = "fast"
    /\ pcache.patternMu = 0
    /\ pcache' = [pcache EXCEPT !.callers[c] =
                     IF cacheValid(pcache.patternVersion, @.version, pcache.patternCache)
                     THEN [@ EXCEPT !.pc = "idle", !.returned = pcache.patternCache]
                     ELSE [@ EXCEPT !.pc = "slow"]]
    /\ UNCHANGED <<execVars, cmdVars, supVars, connVars, instVars, wakeVars, gameVars,
                   calcVars, auxVars, expand, watch, console>>

\* The slow path: patternMu.Lock(), the second check; a valid cache is
\* returned (the deferred Unlock), otherwise patternCache = make(...)
SlowPath(c) ==
    /\ pcache.callers[c].pc = "slow"
    /\ pcache.patternMu = 0
    /\ pcache' =
          IF cacheValid(pcache.patternVersion, pcache.callers[c].version,
                        pcache.patternCache)
          THEN [pcache EXCEPT !.callers[c].pc = "idle",
                              !.callers[c].returned = pcache.patternCache]
          ELSE [pcache EXCEPT !.callers[c].pc = "rebuild", !.patternMu = c,
                              !.patternCache = Slice(<<>>)]
    /\ UNCHANGED <<execVars, cmdVars, supVars, connVars, instVars, wakeVars, gameVars,
                   calcVars, auxVars, expand, watch, console>>

\* The rebuild: one gamePattern per entry of the caller's map, in the order
\* the range takes; patternVersion = version; return (the deferred Unlock)
Rebuild(c) ==
    /\ pcache.callers[c].pc = "rebuild"
    /\ \E order \in Orderings({gamePattern(e) : e \in pcache.callers[c].gameMap}) :
         pcache' = [pcache EXCEPT !.patternCache = Slice(order),
                                  !.patternVersion = pcache.callers[c].version,
                                  !.patternMu = 0,
                                  !.callers[c].pc = "idle",
                                  !.callers[c].returned = Slice(order)]
    /\ UNCHANGED <<execVars, cmdVars, supVars, connVars, instVars, wakeVars, gameVars,
                   calcVars, auxVars, expand, watch, console>>

PcacheNext ==
    \/ PcacheReload
    \/ \E c \in 1..MaxCallers : GetGameMap(c) \/ FastPath(c) \/ SlowPath(c) \/ Rebuild(c)

-----------------------------------------------------------------------------
(* main.go: main in console mode, the console control handler *)

\* console control events in one behaviour
MaxCtrlEvents == 2

\* CTRL_C_EVENT, CTRL_BREAK_EVENT, CTRL_CLOSE_EVENT, CTRL_LOGOFF_EVENT,
\* CTRL_SHUTDOWN_EVENT
ShutdownCtrlTypes == {0, 1, 2, 5, 6}

\* The control types the system can pass to a handler (3: no type of the
\* switch)
CtrlTypes == ShutdownCtrlTypes \cup {3}

\* console.shutdownChan: "open" or "closed"; closes: calls of
\* close(shutdownChan) that returned; panicked: close of a closed channel;
\* handlers: the handler calls, each on a thread of its own, with the control
\* type, the place in the callback ("switch", "select", "close", "returned")
\* and the value returned; main: "wait" (<-shutdownChan), "stop" (agent.stop()
\* called), "exit"; stops: calls of agent.stop()
ConsoleInit ==
    console = [shutdownChan |-> "open", closes |-> 0, panicked |-> FALSE, handlers |-> <<>>,
               main |-> "wait", stops |-> 0]

\* The system calls the handler for a control event, on a new thread
CtrlEvent ==
    /\ ~console.panicked
    /\ console.main # "exit"
    /\ Len(console.handlers) < MaxCtrlEvents
    /\ \E ctrlType \in CtrlTypes :
         console' = [console EXCEPT !.handlers =
                        Append(@, [ctrlType |-> ctrlType, pc |-> "switch", ret |-> 0])]
    /\ UNCHANGED <<execVars, cmdVars, supVars, connVars, instVars, wakeVars, gameVars,
                   calcVars, auxVars, expand, watch, pcache>>

\* switch ctrlType: one of the five types: the log line, then the select;
\* any other type: return 0
HandlerSwitch(h) ==
    /\ ~console.panicked
    /\ console.handlers[h].pc = "switch"
    /\ console' = [console EXCEPT !.handlers[h].pc =
                      IF console.handlers[h].ctrlType \in ShutdownCtrlTypes
                      THEN "select" ELSE "returned"]
    /\ UNCHANGED <<execVars, cmdVars, supVars, connVars, instVars, wakeVars, gameVars,
                   calcVars, auxVars, expand, watch, pcache>>

\* select { case <-shutdownChan: (already shutting down) return 1;
\* default: go on to close(shutdownChan) }
HandlerSelect(h) ==
    /\ ~console.panicked
    /\ console.handlers[h].pc = "select"
    /\ console' = IF console.shutdownChan = "closed"
                  THEN [console EXCEPT !.handlers[h].pc = "returned", !.handlers[h].ret = 1]
                  ELSE [console EXCEPT !.handlers[h].pc = "close"]
    /\ UNCHANGED <<execVars, cmdVars, supVars, connVars, instVars, wakeVars, gameVars,
                   calcVars, auxVars, expand, watch, pcache>>

\* close(shutdownChan); return 1. Closing a closed channel panics
HandlerClose(h) ==
    /\ ~console.panicked
    /\ console.handlers[h].pc = "close"
    /\ console' = IF console.shutdownChan = "open"
                  THEN [console EXCEPT !.shutdownChan = "closed", !.closes = @ + 1,
                                       !.handlers[h].pc = "returned", !.handlers[h].ret = 1]
                  ELSE [console EXCEPT !.panicked = TRUE]
    /\ UNCHANGED <<execVars, cmdVars, supVars, connVars, instVars, wakeVars, gameVars,
                   calcVars, auxVars, expand, watch, pcache>>

\* main: <-shutdownChan returns; log.Println("Shutting down..."); agent.stop()
MainShutdown ==
    /\ ~console.panicked
    /\ console.main = "wait"
    /\ console.shutdownChan = "closed"
    /\ console' = [console EXCEPT !.main = "stop", !.stops = @ + 1]
    /\ UNCHANGED <<execVars, cmdVars, supVars, connVars, instVars, wakeVars, gameVars,
                   calcVars, auxVars, expand, watch, pcache>>

\* agent.stop() returns, main returns
MainExit ==
    /\ ~console.panicked
    /\ console.main = "stop"
    /\ console' = [console EXCEPT !.main = "exit"]
    /\ UNCHANGED <<execVars, cmdVars, supVars, connVars, instVars, wakeVars, gameVars,
                   calcVars, auxVars, expand, watch, pcache>>

ConsoleNext ==
    \/ CtrlEvent
    \/ \E h \in DOMAIN console.handlers : HandlerSwitch(h) \/ HandlerSelect(h) \/ HandlerClose(h)
    \/ MainShutdown
    \/ MainExit

-----------------------------------------------------------------------------
(* Specifications *)

ExecParked ==
    exec = [command |-> "", payload |-> <<>>, pc |-> "returned", child |-> NoProc,
            logged |-> <<>>, err |-> FALSE]

SupParked ==
    /\ runPc = "start" /\ mqttClient = "nil" /\ will = <<>> /\ connected = FALSE
    /\ mu = "free" /\ stopChan = "open" /\ pump = <<>> /\ osQueue = <<>>
    /\ retry = <<>> /\ sensor = <<>> /\ stopper = <<>> /\ watcher = "off"
    /\ wakeHandler = "nil" /\ bus = <<>> /\ ghost = <<>>

ConnParked == conn = <<>>
InstParked == inst = <<>>
WakeParked == wake = <<>>
GameParked == games = <<>>
CalcParked == calc = <<>>
ExpandParked == expand = <<>>
WatchParked == watch = <<>>
PcacheParked == pcache = <<>>
ConsoleParked == console = <<>>
MoreParked == ExpandParked /\ WatchParked /\ PcacheParked /\ ConsoleParked
AuxParked == topics = <<>> /\ cfg = <<>> /\ lst = <<>> /\ MoreParked

InitExec ==
    /\ ExecInit /\ CmdInit /\ SupParked /\ ConnParked /\ InstParked
    /\ WakeParked /\ GameParked /\ CalcParked /\ AuxParked
SpecExec == InitExec /\ [][ExecNext]_vars

Init ==
    /\ ExecParked /\ CmdInit /\ SupInit /\ ConnParked /\ InstParked
    /\ WakeParked /\ GameParked /\ CalcParked /\ AuxParked
Spec == Init /\ [][SupNext]_vars

InitCmd ==
    /\ ExecParked /\ CmdInit /\ SupParked /\ ConnParked /\ InstParked
    /\ WakeParked /\ GameParked /\ CalcParked /\ AuxParked
SpecCmd == InitCmd /\ [][CmdNext]_vars

InitConn ==
    /\ ExecParked /\ CmdInit /\ SupParked /\ ConnInit /\ InstParked
    /\ WakeParked /\ GameParked /\ CalcParked /\ AuxParked
SpecConn == InitConn /\ [][ConnNext]_vars

InitInst ==
    /\ ExecParked /\ CmdInit /\ SupParked /\ ConnParked /\ InstInit
    /\ WakeParked /\ GameParked /\ CalcParked /\ AuxParked
SpecInst == InitInst /\ [][InstNext]_vars

InitWake ==
    /\ ExecParked /\ CmdInit /\ SupParked /\ ConnParked /\ InstParked
    /\ WakeInit /\ GameParked /\ CalcParked /\ AuxParked
SpecWake == InitWake /\ [][WakeNext]_vars

InitGames ==
    /\ ExecParked /\ CmdInit /\ SupParked /\ ConnParked /\ InstParked
    /\ WakeParked /\ GameInit /\ CalcParked /\ AuxParked
SpecGames == InitGames /\ [][GameNext]_vars

InitCalc ==
    /\ ExecParked /\ CmdInit /\ SupParked /\ ConnParked /\ InstParked
    /\ WakeParked /\ GameParked /\ CalcInit /\ AuxParked
SpecCalc == InitCalc /\ [][CalcNext]_vars

TopicsParked == topics = <<>>
CfgParked == cfg = <<>>
LstParked == lst = <<>>
AllParked ==
    /\ ExecParked /\ CmdInit /\ SupParked /\ ConnParked /\ InstParked
    /\ WakeParked /\ GameParked /\ CalcParked

InitTopics == AllParked /\ TopicsInit /\ CfgParked /\ LstParked /\ MoreParked
SpecTopics == InitTopics /\ [][TopicsNext]_vars

InitCfg == AllParked /\ TopicsParked /\ CfgInit /\ LstParked /\ MoreParked
SpecCfg == InitCfg /\ [][CfgNext]_vars

InitListener == AllParked /\ TopicsParked /\ CfgParked /\ LstInit /\ MoreParked
SpecListener == InitListener /\ [][LstNext]_vars

\* The supervisor under the scheduling the Go runtime and the bus client
\* give: a runnable goroutine runs; a wait on a token ends (WaitTimeout,
\* 5 s); sync.Mutex hands the lock to a waiter that keeps asking (starvation
\* mode); a select whose stop case is ready each time it is run takes that
\* case in the end (the choice among ready cases is uniformly random)
SupFairness ==
    /\ WF_vars(PumpTokenEnds) /\ WF_vars(OnSleepReturn)
    /\ WF_vars(\E w \in DOMAIN retry : RetryTokenEnds(w))
    /\ WF_vars(\E w \in DOMAIN retry : RetryPublished(w))
    /\ SF_vars(SensorCopy) /\ WF_vars(SensorPublish) /\ SF_vars(SensorStop)
    /\ WF_vars(StopJoin)

\* power broadcasts in one behaviour of the fair specification
MaxFairPowerEvents == 2

\* The power broadcasts of the operating system, up to that number
OsSuspendFair == OsSuspend /\ ghost.suspends + ghost.resumes < MaxFairPowerEvents
OsResumeFair == OsResume /\ ghost.suspends + ghost.resumes < MaxFairPowerEvents

SupNextFair ==
    \/ RunNext \/ PumpNext \/ RetryNext \/ SensorNext \/ StopNext
    \/ BusUp \/ BusDown \/ RunTokenEnds \/ PumpTokenEnds \/ OsSuspendFair \/ OsResumeFair
SpecFair == Init /\ [][SupNextFair]_vars /\ SupFairness

\* expandWindowsEnv runs on a goroutine that is scheduled: a loop iteration
\* that can be made is made
InitExpand == AllParked /\ TopicsParked /\ CfgParked /\ LstParked /\ ExpandInit
                /\ WatchParked /\ PcacheParked /\ ConsoleParked
SpecExpand == InitExpand /\ [][ExpandNext]_vars /\ WF_vars(ExpandNext)

InitWatch == AllParked /\ TopicsParked /\ CfgParked /\ LstParked /\ ExpandParked
             /\ WatchInit /\ PcacheParked /\ ConsoleParked
SpecWatch == InitWatch /\ [][WatchNext]_vars

InitPcache == AllParked /\ TopicsParked /\ CfgParked /\ LstParked /\ ExpandParked
              /\ WatchParked /\ PcacheInit /\ ConsoleParked
SpecPcache == InitPcache /\ [][PcacheNext]_vars

InitConsole == AllParked /\ TopicsParked /\ CfgParked /\ LstParked /\ ExpandParked
               /\ WatchParked /\ PcacheParked /\ ConsoleInit
SpecConsole == InitConsole /\ [][ConsoleNext]_vars

-----------------------------------------------------------------------------
(* Claims *)

LauncherPrefixes == {StrSteam, StrEpic, StrXbox, StrMsstore, StrExe, StrRun, StrClose, StrKill}

\* s has the form prefix:arg with a launcher prefix
IsLauncherForm(s) ==
    /\ Contains(s, <<":">>)
    /\ ToLower(TrimSpace(Take(s, Index(s, <<":">>)))) \in LauncherPrefixes

\* s is a launcher command whose (non-empty) argument fails the validator
\* expandLauncherShortcut applies for its prefix
RejectedByAllowList(s) ==
    /\ IsLauncherForm(s)
    /\ LET parts == SplitN(s, ":", 2)
           launcher == ToLower(TrimSpace(parts[1]))
           arg == TrimSpace(parts[2])
       IN  /\ arg # <<>>
           /\ CASE launcher = StrSteam -> ~isNumeric(arg)
                [] launcher = StrEpic -> ~isSafeIdentifier(arg)
                [] launcher \in {StrXbox, StrMsstore} -> ~isSafePackageName(arg)
                [] launcher \in {StrExe, StrRun} -> ~isSafePath(arg)
                [] OTHER -> ~isSafeIdentifier(TrimSuffix(arg, StrDotExe))

\* C1: a command string prefix:arg whose arg fails the allow-list of its
\* launcher prefix is dropped by executeShellCommand: no child process is
\* ever started from it. (Stated as the claim; the code starts one.)
C1_RejectedNeverSpawned ==
    exec.child.state # "none" => ~RejectedByAllowList(exec.child.from)

\* number of children of command dispatch that have neither exited nor been killed
RunningChildren ==
    LET run == {c \in BagToSet(children) : c.state = "running"}
    IN  BagCardinality([c \in run |-> children[c]])

\* C2: at most K = 5 child processes started by command dispatch are alive
\* at any time. (Stated as the claim; the slot is given back when Execute
\* returns, while the child is still running.)
C2_AtMostKChildren == RunningChildren <= maxConcurrentCommands

\* The publish the on-sleep callback has to issue
SleepingPublish ==
    [name |-> "sleep_state", value |-> "sleeping", retained |-> TRUE, by |-> "pump",
     locked |-> TRUE, handle |-> "field", copied |-> FALSE, stale |-> FALSE]

\* C3: a suspend event delivered while the bus is connected: the on-sleep
\* callback runs on the pump thread and issues the retained publish of
\* sleep_state = sleeping; it returns to the pump only after the token of
\* that publish has ended (acknowledged, failed or timed out); the pump takes
\* no message off its queue while the callback runs.
C3_SleepPublishSynchronous ==
    /\ [][pump.pc = "sleepLock" /\ pump'.pc = "sleepWait" /\ connected
            => /\ bus'.last = SleepingPublish
               /\ pump'.token = "pending"
               /\ mu' = "pump"]_vars
    /\ [](pump.pc = "idle" /\ pump.saw = "connected" => pump.token = "done")
    /\ [][pump.pc \in {"sleepLock", "sleepWait"}
            => /\ Len(osQueue') >= Len(osQueue)
               /\ Len(retry') = Len(retry)]_vars

\* C3 witness: the callback has returned to the pump after a publish whose
\* token ended
C3_Witness ==
    /\ pump.pc = "idle" /\ pump.saw = "connected" /\ pump.token = "done"
    /\ bus.retainedSleep = "sleeping"

\* C4: once sleeping has been published for a suspend event, no awake is
\* published until a later resume event has been delivered to the pump.
\* (Stated as the claim; a retry worker of an earlier resume, and the initial
\* publish of run(), publish awake after a later suspend's sleeping.)
C4_NoAwakeBeforeResume ==
    ~(bus.last.name = "sleep_state" /\ bus.last.value = "awake" /\ bus.last.stale)

\* resume events delivered to the pump so far
ResumesDelivered ==
    ghost.resumes - Cardinality({i \in DOMAIN osQueue : osQueue[i] = "resume"})

\* C5: each delivered resume event has one retry worker; a worker makes at
\* most three attempts, the k-th after the delays 2 s, 5 s, 10 s have run out
\* in this order; only its last attempt can have found the bus connected, and
\* it has published awake (once) exactly if that attempt did; a worker that
\* has published makes no further attempt; a worker that ended without a
\* publish found the bus disconnected three times, or was stopped.
C5_RetryWorker ==
    /\ Len(retry) = ResumesDelivered
    /\ \A w \in DOMAIN retry :
         LET r == retry[w]
             n == Len(r.tests)
         IN  /\ n <= 3
             /\ Len(r.waited) <= 3
             /\ r.waited = SubSeq(<<2, 5, 10>>, 1, Len(r.waited))
             /\ n <= Len(r.waited) /\ Len(r.waited) <= n + 1
             /\ \A k \in 1..(n - 1) : ~r.tests[k]
             /\ r.pubs = IF n > 0 /\ r.tests[n] THEN 1 ELSE 0
             /\ r.pubs = 1 => r.pc \in {"wait", "done"} /\ Len(r.waited) = n
             /\ r.pc = "done" /\ r.pubs = 0 => r.aborted \/ n = 3

\* C5 witness: a worker that found the bus connected at its second attempt,
\* published once and ended
C5_Witness ==
    \E w \in DOMAIN retry :
        /\ retry[w].pc = "done" /\ retry[w].tests = <<FALSE, TRUE>>
        /\ retry[w].waited = <<2, 5>> /\ retry[w].pubs = 1

\* C6: when a second instance is launched while a first one runs, the second
\* exits with status 0 without starting its workers and the first goes on
\* undisturbed: no running instance is terminated by another, and no two
\* instances run their workers at the same time. (Stated as the claim; the
\* later instance terminates the earlier one and runs.)
C6_SingleInstanceGuard ==
    /\ \A p \in Pids : ~(inst[p].pc = "terminated" /\ inst[p].killedWhile = "running")
    /\ \A p, q \in Pids : inst[p].pc = "running" /\ inst[q].pc = "running" => p = q

\* calls of a run of the connect handler: 0 the online publish, 1 a discovery
\* publish, 2 a subscription
Phase(call) ==
    IF call.op = "subscribe" THEN 2
    ELSE IF call.topic = <<"availability">> THEN 0 ELSE 1

\* C7: every connect has its run of the connect handler, and in every run
\* the first call is the retained publish of online on the availability
\* topic, no discovery publish comes after a subscription, and a
\* subscription is issued only after all ten discovery payloads.
C7_ConnectOrder ==
    /\ Len(conn.handlers) = conn.connects
    /\ \A h \in DOMAIN conn.handlers :
         LET log == conn.handlers[h].log
         IN  /\ log # <<>> =>
                   /\ log[1].op = "publish" /\ log[1].topic = <<"availability">>
                   /\ log[1].payload = "online" /\ log[1].retained
             /\ \A i, j \in DOMAIN log : i < j => Phase(log[i]) <= Phase(log[j])
             /\ \A i, j \in DOMAIN log : i < j => ~(Phase(log[i]) = 0 /\ Phase(log[j]) = 0)
             /\ \A j \in DOMAIN log :
                   Phase(log[j]) = 2 =>
                       Cardinality({i \in 1..(j - 1) : Phase(log[i]) = 1}) = 10

\* C7 witness: the run of the handler for a reconnect has made all its calls,
\* the eight subscriptions last
C7_Witness ==
    /\ Len(conn.handlers) = 2
    /\ Len(conn.handlers[2].log) = 19
    /\ \A j \in 12..19 : conn.handlers[2].log[j].op = "subscribe"

\* C8: every publish of sleep_state is retained, the offline will is
\* retained, every publish of runninggames and lastactive is not retained.
C8_RetainedFlags ==
    /\ bus.last.name = "sleep_state" => bus.last.retained
    /\ bus.last.name \in {"runninggames", "lastactive"} => ~bus.last.retained
    /\ will # <<>> => will.payload = "offline" /\ will.retained

\* C8 witness: a telemetry publish after the broker took a retained
\* sleep_state, with the will set
C8_Witness ==
    /\ bus.last.name = "lastactive"
    /\ bus.retainedSleep = "sleeping"
    /\ will # <<>>

\* C9: every publish of the supervisor is made holding s.mu from the
\* connected test on, or through a handle copied while holding s.mu.
\* (Stated as the claim; the initial awake publish of run() does neither.)
C9_PublishUnderMutex ==
    bus.last.name # "" => bus.last.locked \/ (bus.last.handle = "copy" /\ bus.last.copied)

\* C10: stop() runs these six steps in this order, the last one being the
\* release of the single-instance primitive. (Stated as the claim; stop()
\* ends after the disconnect.)
C10_StopOrder ==
    stopper.pc = "done" =>
        stopper.trace = <<"close stop channel", "join sensor loop", "stop power listener",
                          "stop config watcher", "disconnect bus under mutex",
                          "release single-instance primitive">>

\* goroutines of preventSleepTemporary that have not yet given the inhibit
\* back (cleared sleepPreventionActive)
PendingReleasers ==
    LET pend == {r \in BagToSet(wake.releasers) : r # "log"}
    IN  BagCardinality([r \in pend |-> wake.releasers[r]])

C12_OneWakeSequence ==
    /\ [](BagCardinality(wake.seqs) <= 1 /\ (wake.hmu <=> BagCardinality(wake.seqs) = 1))
    /\ [][wake'.onWakes # wake.onWakes /\ wake.hmu
            => wake'.seqs = wake.seqs /\ wake'.started = wake.started]_vars
    /\ [][wake'.onWakes # wake.onWakes /\ ~wake.hmu /\ wake.enabled
            => /\ wake'.seqs = SetToBag({[pc |-> "settle", attempt |-> 0]})
               /\ wake'.started = wake.started + 1]_vars

\* C12 witness: three OnWake calls: one started a sequence, one was dropped
\* while it ran, one started a new sequence after it had ended
C12_Witness ==
    /\ wake.onWakes = 3 /\ wake.started = 2
    /\ BagCardinality(wake.seqs) = 1

C14_ReloadKeepsResult ==
    (/\ games.prev.done /\ games.last.done
     /\ games.prev.snapshot /\ games.last.snapshot
     /\ games.prev.gameMap = games.last.gameMap)
        => games.prev.result = games.last.result

\* The game map of the file with the pattern added to the defaults
WithAddedPattern == defaultGames \cup {Game(<<"r","5","a","p","e","x">>, "apex")}

\* C15: a reload of a rewritten games.json installs the file's map and a
\* greater version, and the version never goes back; a GetRunningGame call
\* reads the map and version the store holds when it starts, and matches
\* against exactly the (lower-cased) patterns of the map it read, so that
\* a process matching only the added pattern is reported with its game id.
C15_ReloadReachesSensor ==
    /\ [][/\ games'.gameMapVersion >= games.gameMapVersion
          /\ (games'.events < games.events /\ games.file.state = "valid")
                => /\ games'.gameMapVersion > games.gameMapVersion
                   /\ games'.gameMap = games.file.games]_vars
    /\ [][(games.call.pc = "idle" /\ games'.call.pc = "got")
                => /\ games'.call.gameMap = games.gameMap
                   /\ games'.call.version = games.gameMapVersion]_vars
    /\ [](games.last.done =>
            /\ {games.last.patterns[i] : i \in 1..Len(games.last.patterns)}
                  = {gamePattern(e) : e \in games.last.gameMap}
            /\ Len(games.last.patterns) = Cardinality(games.last.gameMap)
            /\ (/\ games.last.snapshot
                /\ games.last.gameMap = WithAddedPattern
                /\ games.procs = <<<<"x",".","e","x","e">>,
                                   <<"R","5","A","p","e","x",".","e","x","e">>>>)
                  => games.last.result = "apex")

\* C15 witness: a call under the default map found no game; after the
\* file was rewritten with the added pattern and reloaded, the next call
\* rebuilt its patterns and reports the added pattern's game
C15_Witness ==
    /\ games.prev.done /\ games.prev.snapshot
    /\ games.prev.gameMap = defaultGames /\ games.prev.result = "none"
    /\ games.last.done /\ games.last.rebuilt
    /\ games.last.gameMap = WithAddedPattern /\ games.last.result = "apex"

\* The claim's match rule: the lower-cased process name begins with the
\* lower-cased pattern, or equals it once its .exe suffix is stripped
C16_Matches(proc, entry) ==
    LET name == ToLower(proc)
        pat == ToLower(entry.pattern)
    IN  \/ (Len(pat) <= Len(name) /\ SubSeq(name, 1, Len(pat)) = pat)
        \/ (IF Len(name) >= 4 /\ SubSeq(name, Len(name) - 3, Len(name)) = <<".","e","x","e">>
            THEN SubSeq(name, 1, Len(name) - 4) ELSE name) = pat

\* The processes the call enumerated: none when the snapshot failed
C16_Snapshotted == IF games.last.snapshot THEN games.procs ELSE <<>>

\* C16: GetRunningGame returns "none" exactly when no snapshotted process
\* matches any pattern of the game map; otherwise it returns the game id of
\* a pattern matched by the first process, in enumeration order, that
\* matches any pattern.
C16_FirstMatchingProcess ==
    games.last.done =>
        LET procs == C16_Snapshotted
            hits == {n \in 1..Len(procs) :
                        \E e \in games.last.gameMap : C16_Matches(procs[n], e)}
        IN  /\ games.last.result = "none" <=> hits = {}
            /\ hits # {} =>
                 \E n \in hits :
                    /\ \A m \in hits : n <= m
                    /\ \E e \in games.last.gameMap :
                          C16_Matches(procs[n], e) /\ e.gameID = games.last.result

\* C16 witness: the first process matches by prefix only and not by base
\* name, the second by base name; the first one's game is returned
C16_Witness ==
    /\ games.last.done /\ games.last.snapshot
    /\ games.procs = <<<<"c","s","2","x",".","e","x","e">>,
                       <<"s","k","a","t","e",".","e","x","e">>>>
    /\ games.last.gameMap = defaultGames
    /\ games.last.result = "counter_strike_2"

\* C18: the payload Execute works with (and logs) is the payload with the
\* white space at both ends removed, except that it is empty when that
\* text is exactly PRESS or press.
C18_NormalisedPayload ==
    exec.pc = "returned" =>
        \E i, j \in 0..Len(exec.payload) :
            /\ i + j <= Len(exec.payload)
            /\ \A k \in 1..i : exec.payload[k] \in {" ", "\t", "\n", "\r"}
            /\ \A k \in (Len(exec.payload) - j + 1)..Len(exec.payload) :
                  exec.payload[k] \in {" ", "\t", "\n", "\r"}
            /\ LET t == SubSeq(exec.payload, i + 1, Len(exec.payload) - j)
               IN  /\ t # <<>> => /\ t[1] \notin {" ", "\t", "\n", "\r"}
                                  /\ t[Len(t)] \notin {" ", "\t", "\n", "\r"}
                   /\ exec.logged = IF t \in {<<"P","R","E","S","S">>, <<"p","r","e","s","s">>}
                                    THEN <<>> ELSE t

\* C18 witness: PRESS between white space has become the empty payload
C18_Witness ==
    /\ exec.pc = "returned"
    /\ exec.payload = <<"\t","P","R","E","S","S","\n">>
    /\ exec.logged = <<>>

\* C19: a notification command whose payload is empty after normalisation
\* starts no child process (shows no toast) and returns no error.
C19_EmptyNotificationIgnored ==
    (exec.command = "notification" /\ normalise(exec.payload) = <<>>)
        => exec.child = NoProc /\ ~exec.err

\* C19 witness: a notification with the payload "  press  " has returned
\* without a child
C19_Witness ==
    /\ exec.pc = "returned" /\ exec.command = "notification"
    /\ exec.payload = <<" "," ","p","r","e","s","s"," "," ">>
    /\ exec.child = NoProc /\ ~exec.err

\* a + b on 32 bits, in limbs
C17_Add32(a, b) ==
    LET carry == IF a.lo + b.lo >= 2^16 THEN 1 ELSE 0
    IN  [hi |-> (a.hi + b.hi + carry) % 2^16, lo |-> (a.lo + b.lo) % 2^16]

\* C17: the idle time of GetLastActiveTime is the difference modulo 2^32
\* of the low 32 bits of the tick count and the tick of the last input
\* (the 32-bit value that added to the last-input tick gives the low 32
\* bits of the tick count); for tick count 5 and last input 0xFFFFFFF0 it
\* is 0x15; when GetLastInputInfo fails it is 0.
C17_IdleWraps ==
    (calc.fn = "GetLastActiveTime" /\ calc.pc = "done") =>
        /\ calc.idle.hi \in 0..(2^16 - 1) /\ calc.idle.lo \in 0..(2^16 - 1)
        /\ calc.ret = 0 => calc.idle = [hi |-> 0, lo |-> 0]
        /\ calc.ret # 0 =>
              C17_Add32(calc.idle, calc.last) = [hi |-> calc.tick.hi, lo |-> calc.tick.lo]
        /\ (/\ calc.ret # 0
            /\ calc.tick.hi = 0 /\ calc.tick.lo = 5
            /\ calc.last = [hi |-> 65535, lo |-> 65520])
              => calc.idle = [hi |-> 0, lo |-> 21]

\* C17 witness: tick count 2^32 + 5, last input at 0xFFFFFFF0, idle 0x15
C17_Witness ==
    /\ calc.fn = "GetLastActiveTime" /\ calc.pc = "done" /\ calc.ret = 1
    /\ calc.tick = [top |-> 1, hi |-> 0, lo |-> 5]
    /\ calc.last = [hi |-> 65535, lo |-> 65520]
    /\ calc.idle = [hi |-> 0, lo |-> 21]

\* C20: for a text without & < > ' " (control characters allowed),
\* escapeXML applied to its own output gives that output again.
C20_EscapeIdempotent ==
    (/\ calc.fn = "escapeXML" /\ calc.pc = "done"
     /\ \A i \in DOMAIN calc.text : calc.text[i] \notin {"&", "<", ">", "'", "\""})
        => calc.outs[2] = calc.outs[1]

\* C20 witness: a text with a prohibited control character, a tab and a
\* letter; the control character is gone after the first application
C20_Witness ==
    /\ calc.fn = "escapeXML" /\ calc.pc = "done"
    /\ calc.text = <<"\f", "\t", "a">>
    /\ calc.outs = << <<"\t", "a">>, <<"\t", "a">> >>

\* C21: after the configuration is loaded, the topic used for a known
\* sensor or command name, and for availability, is the topic formatted
\* for the configured device name.
C21_TopicsForConfiguredDevice ==
    (topics.pc = "running" /\ topics.used.kind # "none") =>
        topics.used.topic =
            CASE topics.used.kind = "availability" ->
                    <<"homeassistant", "sensor", topics.DeviceName, "availability">>
              [] topics.used.kind = "sensor" ->
                    <<"homeassistant", "sensor", topics.DeviceName, topics.used.name, "state">>
              [] topics.used.kind = "command" ->
                    <<"homeassistant", "button", topics.DeviceName, topics.used.name, "action">>

\* The validation rules of the claim that the file violates
C22_Violated ==
    LET f == cfg.file
    IN  (IF \/ f.DeviceName = <<>>
            \/ f.DeviceName = <<"m","y","-","p","c">>
            \/ \E i \in DOMAIN f.DeviceName : f.DeviceName[i] \in {" ", "\t", "\n", "\r"}
         THEN {"device_name"} ELSE {})
        \cup (IF f.Broker.text # "" /\ (\/ f.Broker.err
                                        \/ f.Broker.scheme \notin {"tcp", "ssl", "ws", "wss"}
                                        \/ f.Broker.host = "")
              THEN {"mqtt.broker"} ELSE {})
        \cup (IF f.GameSensor < 0 THEN {"intervals.game_sensor"} ELSE {})
        \cup (IF f.LastActive < 0 THEN {"intervals.last_active"} ELSE {})
        \cup (IF f.Availability < 0 THEN {"intervals.availability"} ELSE {})
        \cup (IF \E e \in f.Games : e.pattern = <<>> THEN {"games pattern"} ELSE {})
        \cup (IF \E e \in f.Games : e.gameID = "" THEN {"games id"} ELSE {})

\* The rules the returned error lists
C22_Listed ==
    LET has(texts) == \E i \in DOMAIN cfg.errors : cfg.errors[i] \in texts
    IN  (IF has({"device_name is required", "device_name is still the default",
                 "device_name cannot contain whitespace"}) THEN {"device_name"} ELSE {})
        \cup (IF has({"mqtt.broker is not a valid URL", "mqtt.broker has unsupported scheme",
                      "mqtt.broker is missing host"}) THEN {"mqtt.broker"} ELSE {})
        \cup (IF has({"intervals.game_sensor cannot be negative"})
              THEN {"intervals.game_sensor"} ELSE {})
        \cup (IF has({"intervals.last_active cannot be negative"})
              THEN {"intervals.last_active"} ELSE {})
        \cup (IF has({"intervals.availability cannot be negative"})
              THEN {"intervals.availability"} ELSE {})
        \cup (IF has({"games map has empty process pattern"}) THEN {"games pattern"} ELSE {})
        \cup (IF has({"games has empty game ID"}) THEN {"games id"} ELSE {})

\* C22: a file that could be read and violates a validation rule makes the
\* load fail with one error that lists every violated rule, and leaves the
\* configuration globals as they were.
C22_InvalidConfigRejected ==
    (cfg.pc = "returned" /\ cfg.err # "read or parse" /\ C22_Violated # {}) =>
        /\ cfg.err = "validation"
        /\ C22_Listed = C22_Violated
        /\ cfg.globals = [DeviceName |-> <<>>, DeviceID |-> <<>>, MQTTBroker |-> "",
                          MQTTClientID |-> <<>>, GameSensorInterval |-> 0,
                          LastActiveInterval |-> 0, AvailabilityInterval |-> 0,
                          gameMap |-> {}]

\* C23: the callback always has a branch to take; with all slots taken a
\* command is dropped (no worker, no Execute, no child); otherwise one slot
\* is taken and one worker spawned that has not called Execute yet; every
\* slot taken is held by exactly one live worker, so that a worker's exit,
\* with or without an error of Execute, gives its slot back.
C23_SemaphoreNeverLeaks ==
    /\ [](/\ cmdSem \in 0..maxConcurrentCommands
          /\ cmdSem = BagCardinality(workers)
          /\ nextMsg < MaxMsgs => ENABLED (OnCommandSpawn \/ OnCommandDrop))
    /\ [][(nextMsg' # nextMsg /\ cmdSem = maxConcurrentCommands)
            => /\ cmdSem' = cmdSem /\ workers' = workers /\ children' = children]_vars
    /\ [][(nextMsg' # nextMsg /\ cmdSem < maxConcurrentCommands)
            => /\ cmdSem' = cmdSem + 1 /\ children' = children
               /\ \E w \in BagToSet(workers') :
                     /\ w.pc = "spawned"
                     /\ workers' = workers (+) SetToBag({w})]_vars
    /\ [][\A w \in BagToSet(workers) :
            (w.pc = "spawned" /\ CopiesIn(w, workers') < CopiesIn(w, workers))
                => /\ BagCardinality(workers') <= BagCardinality(workers)
                   /\ cmdSem' = BagCardinality(workers')]_vars

\* C23 witness: all slots are taken by live workers and a further command
\* has been handled
C23_Witness ==
    /\ cmdSem = maxConcurrentCommands
    /\ BagCardinality(workers) = maxConcurrentCommands
    /\ nextMsg = MaxMsgs

\* C24: a child process the dispatcher has started and that is still
\* running has a timer that ends the wait for it (armed, or fired with
\* the kill to follow): nothing waits on a child without a bound.
C24_EveryChildHasTimer ==
    exec.child.state = "running" => exec.child.timer \in {"armed", "fired"}

\* The start steps of run() in the order of the claim, each with the
\* position run() is at before it
C25_Order ==
    <<"loadConfig", "initWatcher", "newClient", "connect", "wakeHandler", "newListener",
      "startListener", "initialCheck", "spawnSensor", "running">>

\* C25: run() takes its start steps in the stated order, each with its
\* effect (config watcher started, bus wrapper created, connect attempted,
\* display-wake handler set, listener constructed, then started, initial
\* awake published exactly if connected, sensor loop spawned); only a
\* failed config load ends the start; a connect attempt that fails is
\* followed by the same steps as one that succeeds.
C25_StartOrder ==
    /\ [][runPc' # runPc =>
            \/ \E i \in 1..(Len(C25_Order) - 1) :
                  runPc = C25_Order[i] /\ runPc' = C25_Order[i + 1]
            \/ runPc = "loadConfig" /\ runPc' = "fatal"
            \/ runPc = "initialCheck" /\ runPc' = "initialWait"
            \/ runPc = "initialWait" /\ runPc' = "spawnSensor"]_vars
    /\ [][runPc' # runPc =>
            /\ runPc = "initWatcher" => watcher = "off" /\ watcher' = "running"
            /\ runPc = "newClient" => mqttClient = "nil" /\ mqttClient' = "client"
            /\ runPc = "connect" => bus.status = "created" /\ bus'.status = "active"
            /\ runPc = "wakeHandler" => wakeHandler = "nil" /\ wakeHandler' = "set"
            /\ runPc = "newListener" => pump.pc = "off" /\ pump'.pc = "created"
            /\ runPc = "startListener" => pump'.pc = "starting"
            /\ runPc = "initialCheck" =>
                  /\ (runPc' = "initialWait") <=> connected
                  /\ connected <=> (bus'.runToken = "pending" /\ bus'.last.value = "awake")
                  /\ sensor.pc = "off"
            /\ runPc = "spawnSensor" => sensor.pc = "off" /\ sensor'.pc # "off"]_vars
    /\ [](runPc = "running" => pump.pc # "off" /\ sensor.pc # "off")

\* C25 witness: the start is complete with the bus not connected and no
\* initial publish made; the listener and the sensor loop run
C25_Witness ==
    /\ runPc = "running" /\ ~connected /\ bus.runToken = "none"
    /\ bus.last.by = "" /\ pump.pc = "idle" /\ sensor.pc = "select"

\* C26: the start skipped the initial awake publish because the bus was not
\* connected, the connection has since been established, the agent is running
\* (no stop asked for), no suspend has occurred and nothing in the agent is
\* left to act on sleep_state (run() has returned, no retry worker exists,
\* the sensor loop waits for its next tick): the retained sleep_state on the
\* bus is awake.
C26_RetainedStateConverges ==
    (/\ runPc = "running" /\ stopper.pc = "idle" /\ stopChan = "open"
     /\ bus.runToken = "none"
     /\ connected
     /\ ghost.suspends = 0 /\ retry = <<>> /\ osQueue = <<>>
     /\ pump.pc = "idle" /\ sensor.pc = "select")
    => bus.retainedSleep = "awake"

\* C27: Stop() on a started listener comes to its end. While Stop() waits
\* for the pump, a pump blocked in GetMessageW has a message in its queue
\* (with none, neither thread has a step left); and when Stop() has
\* returned, the pump has returned and the window is destroyed and its
\* handle cleared.
C27_StopReturns ==
    /\ (lst.stop = "wait" /\ lst.pump = "getmsg") => lst.queue # <<>>
    /\ lst.stop = "returned" =>
          lst.pump = "exited" /\ lst.hwnd = 0 /\ lst.window # "live"

\* C29: with heartbeatDone closed, the step the watchdog takes out of a wait
\* (the ticker wait or the 5 s response wait) is its return.
C29_WatchdogLeavesAtNextWait ==
    [][(lst.done /\ lst.hb \in {"tickWait", "responseWait"} /\ lst'.hb # lst.hb)
         => lst'.hb = "exited"]_vars

\* C28: once the stop channel is closed, no resume-publish retry worker
\* issues an awake publish, wherever it is in its retry sequence.
C28_NoAwakeAfterStop ==
    [][stopChan = "closed" =>
         \A w \in DOMAIN retry : retry'[w].pubs = retry[w].pubs]_vars

\* The first calls of pollSensors, before its loop: publishGameSensor, then
\* publishLastActive, each a copy of the client under the mutex and a publish
C30_InitialSteps ==
    <<[pc |-> "copy", which |-> "runninggames"], [pc |-> "publish", which |-> "runninggames"],
      [pc |-> "copy", which |-> "lastactive"], [pc |-> "publish", which |-> "lastactive"],
      [pc |-> "select", which |-> ""]>>

\* C30: the sensor loop makes its two initial publish calls, runninggames
\* then lastactive, before it waits for a tick (each publishes if the client
\* is connected); the step in which it publishes is taken without the
\* supervisor mutex, which it holds in no state; and once the stop channel is
\* closed the loop exits and the join of stop() returns.
C30_SensorLoop ==
    /\ [][(sensor.init /\ sensor' # sensor) =>
            /\ \E i \in 1..(Len(C30_InitialSteps) - 1) :
                  /\ [pc |-> sensor.pc, which |-> sensor.which] = C30_InitialSteps[i]
                  /\ [pc |-> sensor'.pc, which |-> sensor'.which] = C30_InitialSteps[i + 1]
            /\ sensor'.init = (sensor'.pc # "select")
            /\ (sensor.pc = "publish" /\ connected) =>
                  (bus'.last.by = "sensor" /\ bus'.last.name = sensor.which)]_vars
    /\ [][(sensor.pc = "publish" /\ sensor' # sensor) =>
            (mu # "sensor" /\ mu' # "sensor" /\ (bus' # bus => ~bus'.last.locked))]_vars
    /\ [](mu # "sensor")
    /\ (stopChan = "closed") ~> (sensor.pc = "exited" /\ stopper.pc # "join")

\* C30 witness: the stop channel is closed, the loop has exited after at
\* least one publish of its own, and stop() is past its join
C30_Witness ==
    /\ stopChan = "closed" /\ sensor.pc = "exited" /\ stopper.pc = "stopListener"
    /\ bus.last.by = "sensor" /\ bus.last.name = "lastactive"

\* The commands Execute hands to executeShellCommand
C35_ShellCommands == CommandNames \ {"Wake", "discord_leave_channel", "notification"}

\* C35: for a command other than Wake, discord_leave_channel and
\* notification, with the payload as Execute passes it on: the command
\* string is the predefined string of the command when that is not empty,
\* the payload when the predefined string is empty and the payload is not,
\* and with both empty no child process is started (and no error returned).
C35_CommandStringSelection ==
    (exec.pc = "returned" /\ exec.command \in C35_ShellCommands) =>
        LET predefined == CommandString(exec.command)
            payload == exec.logged
        IN  /\ predefined # <<>> =>
                  (exec.err \/ (exec.child.state # "none" /\ exec.child.from = predefined))
            /\ (predefined = <<>> /\ payload # <<>>) =>
                  (exec.err \/ (exec.child.state # "none" /\ exec.child.from = payload))
            /\ (predefined = <<>> /\ payload = <<>>) =>
                  (~exec.err /\ exec.child.state = "none")

\* C35 witness: Shutdown with a payload of its own runs the predefined string
C35_Witness ==
    /\ exec.pc = "returned" /\ exec.command = "Shutdown"
    /\ exec.logged = <<"c","a","l","c",".","e","x","e">>
    /\ exec.child.state = "running" /\ exec.child.from = Commands["Shutdown"]

\* The allow-lists as the claim words them
C34_Letters == LowerCh \cup UpperCh
C34_IdentifierChars == C34_Letters \cup DigitCh \cup {".", "-", "_"}
C34_ForbiddenPathChars == {";", "|", "&", "$", "`", "\"", "'", "\n", "\r"}

\* arg satisfies the allow-list of the launcher prefix; for close and kill
\* the list is applied to arg as it stands (stripped = FALSE) or to arg
\* without a trailing .exe (stripped = TRUE)
C34_Allowed(launcher, arg, stripped) ==
    CASE launcher = StrSteam -> Len(arg) >= 1 /\ \A i \in DOMAIN arg : arg[i] \in DigitCh
      [] launcher = StrEpic -> \A i \in DOMAIN arg : arg[i] \in C34_IdentifierChars
      [] launcher \in {StrXbox, StrMsstore} ->
           \A i \in DOMAIN arg : arg[i] \in C34_IdentifierChars \cup {"!"}
      [] launcher \in {StrExe, StrRun} ->
           \A i \in DOMAIN arg : arg[i] \notin C34_ForbiddenPathChars
      [] OTHER ->
           LET name == IF stripped THEN TrimSuffix(arg, StrDotExe) ELSE arg
           IN  Len(name) >= 1 /\ \A i \in DOMAIN name : name[i] \in C34_IdentifierChars

\* The claim on the command string of a finished call, when that has the
\* form prefix:arg with a launcher prefix and an arg that is not empty
C34_Decides(stripped) ==
    (exec.pc = "returned" /\ IsLauncherForm(exec.from)) =>
        LET parts == SplitN(exec.from, ":", 2)
            launcher == ToLower(TrimSpace(parts[1]))
            arg == TrimSpace(parts[2])
        IN  arg # <<>> =>
              /\ (exec.launch # <<>>) <=> C34_Allowed(launcher, arg, stripped)
              /\ (launcher = StrSteam /\ C34_Allowed(launcher, arg, stripped)) =>
                    exec.launch = <<"S","t","a","r","t","-","P","r","o","c","e","s","s"," ","\"",
                                    "s","t","e","a","m",":","/","/","r","u","n","g","a","m","e",
                                    "i","d","/">> \o arg \o <<"\"">>
              /\ (launcher = StrSteam /\ \E i \in DOMAIN arg : arg[i] \notin DigitCh) =>
                    exec.launch = <<>>

\* C34 as claimed: expandLauncherShortcut accepts prefix:arg exactly when arg
\* satisfies the allow-list of the prefix (steam: digits; epic, close, kill:
\* letters, digits and .-_; xbox, msstore: the same and !; exe, run: no shell
\* metacharacter); steam:<digits> expands to the start-process call with
\* URI steam://rungameid/<digits>, steam with another arg to nothing.
C34_AllowListDecides == C34_Decides(FALSE)

\* C34 as amended: the same, with the allow-list of close and kill applied
\* to arg without a trailing .exe, of which at least one character is left.
C34_AllowListDecidesStripped == C34_Decides(TRUE)

\* C34 witness: steam:440 was expanded
C34_Witness ==
    /\ exec.pc = "returned" /\ exec.from = <<"s","t","e","a","m",":","4","4","0">>
    /\ exec.launch # <<>>

\* The number of % characters of s
RECURSIVE C38_Percents(_)
C38_Percents(s) ==
    IF s = <<>> THEN 0 ELSE (IF Head(s) = "%" THEN 1 ELSE 0) + C38_Percents(Tail(s))

\* C38: expandWindowsEnv returns for every input string and environment,
\* also when the value of a substituted variable holds % characters; the
\* text it returns holds at most one %; and a token that names an unset
\* variable is replaced by the empty string (the text gets shorter by the
\* token).
C38_ExpandTerminates ==
    /\ <>(expand.pc = "returned")
    /\ [](expand.pc = "returned" => C38_Percents(expand.result) <= 1)
    /\ [][(expand'.result # expand.result /\ expand'.unset) =>
             Len(expand'.result) = Len(expand.result) - Len(expand'.name) - 2]_vars

\* C37: after a successful load the globals of absent fields hold the
\* defaults (broker tcp://homeassistant.local:1883, client id
\* pc-agent-<device>, intervals 5, 10 and 30 s), fields that are given are
\* taken as they are, and every polling interval is at least 1 s: the
\* tickers of the sensor loop get a positive period.
C37_DefaultsAndPositiveIntervals ==
    (cfg.pc = "returned" /\ cfg.err = "") =>
        LET f == cfg.file
            g == cfg.globals
        IN  /\ g.MQTTBroker = IF f.Broker.text = "" THEN "tcp://homeassistant.local:1883"
                              ELSE f.Broker.text
            /\ g.MQTTClientID = IF f.ClientID = <<>>
                                THEN <<"p","c","-","a","g","e","n","t","-">> \o f.DeviceName
                                ELSE f.ClientID
            /\ g.GameSensorInterval = IF f.GameSensor = 0 THEN 5 ELSE f.GameSensor
            /\ g.LastActiveInterval = IF f.LastActive = 0 THEN 10 ELSE f.LastActive
            /\ g.AvailabilityInterval = IF f.Availability = 0 THEN 30 ELSE f.Availability
            /\ g.GameSensorInterval >= 1 /\ g.LastActiveInterval >= 1
            /\ g.AvailabilityInterval >= 1

\* C37 witness: a load succeeded for a file with no broker, no client id
\* and no game_sensor interval, and with a last_active interval of its own
C37_Witness ==
    /\ cfg.pc = "returned" /\ cfg.err = ""
    /\ cfg.file.Broker.text = "" /\ cfg.file.ClientID = <<>>
    /\ cfg.file.GameSensor = 0 /\ cfg.file.LastActive = 7
    /\ cfg.globals.GameSensorInterval = 5 /\ cfg.globals.LastActiveInterval = 7

\* C33 as stated: in every run of the goroutine of preventSleepTemporary
\* the flag sleepPreventionActive goes back to false only after the call
\* SetThreadExecutionState(ES_CONTINUOUS) has returned, and the flag is
\* never false while the state raised by the goroutine is in force.
C33_ResetOnlyAfterClear ==
    /\ [][(wake.active /\ ~wake'.active) => wake.es = "cleared"]_vars
    /\ [](~wake.active => wake.es # "raised")

\* C33, amended: a goroutine that has raised the execution state resets the
\* flag only after the clearing call has returned (a goroutine whose raising
\* call failed has raised nothing and resets the flag at once); the flag is
\* never false while a raised state is in force.
C33_ResetAfterClearWhenRaised ==
    /\ [][(wake.active /\ ~wake'.active) =>
             \/ wake.es = "cleared"
             \/ wake.es = "none" /\ BagIn("setState", wake.releasers)]_vars
    /\ [](~wake.active => wake.es # "raised")

\* C33 witness: a goroutine has raised the state, slept, cleared the state
\* and then reset the flag
C33_Witness ==
    /\ ~wake.active /\ wake.es = "cleared" /\ BagIn("log", wake.releasers)

\* C40: once stop() has disconnected the bus, no worker of the supervisor
\* (sensor loop, On Sleep callback, retry worker) hands a publish to the
\* client, whatever power events and retry workers are still pending.
C40_NoPublishAfterDisconnect ==
    /\ ~bus.late
    /\ bus.status = "disconnected" =>
          /\ sensor.pc = "exited" /\ pump.pc = "exited"
          /\ \A w \in DOMAIN retry : retry[w].pc # "wait"

\* C40 witness: stop() has disconnected the bus while a retry worker was
\* waiting; the worker then took the lock, found the bus not connected and
\* issued nothing, and a power event is still undelivered
C40_Witness ==
    /\ stopper.pc = "done" /\ bus.status = "disconnected"
    /\ \E w \in DOMAIN retry : retry[w].late /\ retry[w].pubs = 0
    /\ osQueue # <<>>

\* The last event the watcher received was for games.json
C31_ForConfiguredFile == watch.last.event.name = "games.json"

\* The last event left map and version as they were
C31_Untouched ==
    /\ watch.gameMap = watch.last.gameMap
    /\ watch.gameMapVersion = watch.last.gameMapVersion

\* C31 as stated: each write, create or rename event the watcher reports for
\* games.json triggers one reload, each successful reload increments the
\* version by exactly one, and an event for another file name triggers no
\* reload and leaves map and version unchanged.
C31_ReloadPerEvent ==
    watch.last.handled =>
        /\ (C31_ForConfiguredFile
            /\ watch.last.event.op \cap {"Write", "Create", "Rename"} # {})
              => watch.last.calls = 1
        /\ watch.last.ok => watch.gameMapVersion = watch.last.gameMapVersion + 1
        /\ ~C31_ForConfiguredFile => watch.last.calls = 0 /\ C31_Untouched

\* C31, amended: each write or create event for games.json triggers one
\* reload, each successful reload increments the version by exactly one; a
\* rename event for games.json and an event for another file name trigger
\* no reload and leave map and version unchanged.
C31_ReloadPerWriteOrCreate ==
    watch.last.handled =>
        /\ (C31_ForConfiguredFile /\ watch.last.event.op \cap {"Write", "Create"} # {})
              => watch.last.calls = 1
        /\ watch.last.ok => watch.gameMapVersion = watch.last.gameMapVersion + 1
        /\ (~C31_ForConfiguredFile \/ watch.last.event.op = {"Rename"})
              => watch.last.calls = 0 /\ C31_Untouched

\* C31 witness: a create event for games.json was followed by a reload that
\* replaced the map and took the version from 1 to 2
C31_Witness ==
    /\ watch.last.handled /\ C31_ForConfiguredFile /\ watch.last.event.op = {"Create"}
    /\ watch.last.ok /\ watch.last.gameMapVersion = 1 /\ watch.gameMapVersion = 2
    /\ watch.gameMap # watch.last.gameMap

\* C39: a reload that fails (games.json unreadable or no valid JSON) leaves
\* map and version unchanged and the watcher running (it ends only when
\* StopGameMapWatcher closes watcherDone), and a later successful reload is
\* applied: the map is the file's, the version one more.
C39_FailedReloadKeepsState ==
    /\ (watch.last.handled /\ watch.last.calls = 1 /\ ~watch.last.ok) => C31_Untouched
    /\ (watch.failed /\ ~watch.done) => watch.watcher = "running"
    /\ (watch.failed /\ watch.last.ok) =>
          /\ watch.gameMap = watch.last.file.games
          /\ watch.gameMapVersion = watch.last.gameMapVersion + 1

\* C39 witness: after a failed reload the watcher still runs and has applied
\* a later reload of a valid file
C39_Witness ==
    /\ watch.failed /\ watch.last.ok /\ watch.watcher = "running"
    /\ watch.gameMap = watch.last.file.games /\ watch.gameMap # watch.last.gameMap

\* While no rebuild is in progress the pattern cache, once built, holds one
\* entry, lower-cased, for each entry of the game map that had the cached
\* version
C32_CacheIsImage ==
    (pcache.patternMu = 0 /\ ~pcache.patternCache.nil) =>
        LET image == {gamePattern(e) : e \in pcache.maps[pcache.patternVersion + 1]}
            items == pcache.patternCache.items
        IN  /\ {items[i] : i \in DOMAIN items} = image
            /\ Len(items) = Cardinality(image)

\* C32: under every interleaving of concurrent getPatterns callers with
\* reloads the cached version never decreases, and whenever no rebuild is in
\* progress the cached vector is the lower-cased image of the game map that
\* had the cached version.
C32_CacheVersionMonotonic ==
    /\ [][pcache'.patternVersion >= pcache.patternVersion]_vars
    /\ []C32_CacheIsImage

\* A handler call for one of the five shutdown control types has returned
C36_ShutdownEventHandled ==
    \E h \in DOMAIN console.handlers :
        /\ console.handlers[h].ctrlType \in ShutdownCtrlTypes
        /\ console.handlers[h].pc = "returned"

\* C36: in console mode each interrupt, break, close, logoff or shutdown
\* control event triggers teardown, and for any number and interleaving of
\* such events, two handlers running concurrently included, shutdownChan is
\* closed exactly once (no second close is attempted) and stop() is called
\* exactly once.
C36_OneCloseOneStop ==
    /\ ~console.panicked
    /\ console.closes <= 1 /\ console.stops <= 1
    /\ C36_ShutdownEventHandled =>
          /\ console.shutdownChan = "closed" /\ console.closes = 1
          /\ \A h \in DOMAIN console.handlers :
                console.handlers[h].pc = "returned" =>
                    console.handlers[h].ret =
                        IF console.handlers[h].ctrlType \in ShutdownCtrlTypes THEN 1 ELSE 0
    /\ console.main # "wait" => console.stops = 1 /\ console.shutdownChan = "closed"

====
